---- MODULE Spec2Model ----
(***************************************************************************)
(* Model of the BOM engine core: the arena-backed graph (bom-graph), the   *)
(* explosion, cost and where-used calculators (bom-calc) and the in-memory *)
(* repository (bom-core).                                                  *)
(*                                                                         *)
(* Conventions.  NodeIndex(k) and EdgeIndex(k) of the source are the       *)
(* 1-based positions k+1 in the sequences arena.nodes and arena.edges.     *)
(* An Option is None or Some(v).  A rust_decimal::Decimal is a record      *)
(* [m, s] standing for m / 10^s (mantissa and scale), compared by value.   *)
(* The arena's free lists are never pushed to anywhere in the source, so   *)
(* add_node and add_edge always take their "allocate new" branch.          *)
(***************************************************************************)
EXTENDS Integers, Sequences, FiniteSets, Bags, TLC

VARIABLES arena, roots, built, result, cache

vars == <<arena, roots, built, result, cache>>

\* Option<T>
None == [some |-> FALSE]

Some(v) == [some |-> TRUE, v |-> v]

----------------------------------------------------------------------------
(* Bounds of the model *)

\* most edges a graph is grown to by add_bom_item / add_edge
MaxEdges == 3
\* most BOM items of a repository handed to from_repository
MaxItems == 4
\* most BOM items of a repository in the graph-construction specification
MaxRepoItems == 3
\* most edges of an arena grown by raw add_edge calls
MaxArenaEdges == 2
\* cap on Node.version, which mark_dirty_recursive increments without bound:
\* dirty flags are cleared only while every version is below it
MaxVersion == 1
\* most BOM items of a repository in the shared-component specification
MaxSharedItems == 3
\* most assembly ids passed to find_shared_components
MaxAssemblies == 3
\* most BOM items of a repository handed to from_component
MaxComponentItems == 3
\* most keys the two tiers of a cache hold entries for
MaxCachedKeys == 2
\* most start nodes passed to topological_sort and level_grouping
MaxRoots == 2
\* BOM lines of the repository a cached cost is computed over
MaxCostItems == 2
\* nodes whose cache.total_material_cost is populated at the same time
MaxCachedNodes == 1

----------------------------------------------------------------------------
(* rust_decimal::Decimal *)

RECURSIVE Pow10(_)
Pow10(k) == IF k = 0 THEN 1 ELSE 10 * Pow10(k - 1)

Dec(n) == [m |-> n, s |-> 0]

DecZero == Dec(0)

DecOne == Dec(1)

DecAdd(a, b) ==
    LET s == IF a.s >= b.s THEN a.s ELSE b.s
    IN  [m |-> a.m * Pow10(s - a.s) + b.m * Pow10(s - b.s), s |-> s]

DecMul(a, b) == [m |-> a.m * b.m, s |-> a.s + b.s]

DecEq(a, b) == a.m * Pow10(b.s) = b.m * Pow10(a.s)

----------------------------------------------------------------------------
(* bom-core: BomItem *)

BomItem(parent, child, qty, scrap) ==
    [parent_id |-> parent, child_id |-> child, quantity |-> qty, scrap_factor |-> scrap]

effective_quantity(item) == DecMul(item.quantity, DecAdd(DecOne, item.scrap_factor))

----------------------------------------------------------------------------
(* bom-graph: Arena *)

NewArena == [nodes |-> <<>>, edges |-> <<>>, component_index |-> [c \in {} |-> 0]]

NewNode(cid) ==
    [component_id |-> cid, incoming |-> <<>>, outgoing |-> <<>>,
     cache |-> [total_material_cost |-> None], dirty |-> TRUE, version |-> 0]

\* find_node: the node's index, or 0 for Option::None (indices start at 1)
find_node(a, cid) ==
    IF cid \in DOMAIN a.component_index THEN a.component_index[cid] ELSE 0

\* add_node: idempotent on the component id; returns the arena and the index
add_node(a, cid) ==
    IF cid \in DOMAIN a.component_index
    THEN [arena |-> a, index |-> a.component_index[cid]]
    ELSE LET idx == Len(a.nodes) + 1
         IN  [arena |-> [a EXCEPT
                  !.nodes = Append(@, NewNode(cid)),
                  !.component_index =
                      [c \in DOMAIN @ \cup {cid} |-> IF c = cid THEN idx ELSE @[c]]],
              index |-> idx]

RECURSIVE mark_dirty_recursive(_, _), MarkParents(_, _, _)
\* the loop of mark_dirty_recursive over the node's incoming edges
MarkParents(a, incoming, i) ==
    IF i > Len(incoming) THEN a
    ELSE MarkParents(
             IF incoming[i] \in 1..Len(a.edges)
             THEN mark_dirty_recursive(a, a.edges[incoming[i]].source)
             ELSE a,
             incoming, i + 1)

\* mutant: marks the node itself and does not recurse into its parents
mark_dirty_no_parents(a, node) ==
    IF node \notin 1..Len(a.nodes) THEN a
    ELSE IF a.nodes[node].dirty THEN a
    ELSE [a EXCEPT !.nodes[node].dirty = TRUE, !.nodes[node].version = @ + 1]

mark_dirty_recursive(a, node) ==
    IF node \notin 1..Len(a.nodes) THEN a
    ELSE IF a.nodes[node].dirty THEN a
    ELSE MarkParents(
             [a EXCEPT !.nodes[node].dirty = TRUE, !.nodes[node].version = @ + 1],
             a.nodes[node].incoming, 1)

\* mutant: the edge is not pushed to the parent's outgoing list
add_edge_no_outgoing(a, parent, child, bom_item) ==
    LET edge_idx == Len(a.edges) + 1
        edge == [source |-> parent, target |-> child, bom_item |-> bom_item,
                 effective_quantity |-> effective_quantity(bom_item)]
        a1 == [a EXCEPT !.edges = Append(@, edge),
                        !.nodes[child].incoming = Append(@, edge_idx)]
    IN  mark_dirty_recursive(a1, parent)

\* mutant: the edge is not entered in the child's incoming list
add_edge_no_incoming(a, parent, child, bom_item) ==
    LET edge_idx == Len(a.edges) + 1
        edge == [source |-> parent, target |-> child, bom_item |-> bom_item,
                 effective_quantity |-> effective_quantity(bom_item)]
        a1 == [a EXCEPT !.edges = Append(@, edge),
                        !.nodes[parent].outgoing = Append(@, edge_idx)]
    IN  mark_dirty_recursive(a1, parent)

add_edge(a, parent, child, bom_item) ==
    LET edge_idx == Len(a.edges) + 1
        edge == [source |-> parent, target |-> child, bom_item |-> bom_item,
                 effective_quantity |-> effective_quantity(bom_item)]
        a1 == [a EXCEPT !.edges = Append(@, edge),
                        !.nodes[parent].outgoing = Append(@, edge_idx)]
        a2 == [a1 EXCEPT !.nodes[child].incoming = Append(@, edge_idx)]
    IN  mark_dirty_recursive(a2, parent)

clear_dirty_flags(a) ==
    [a EXCEPT !.nodes = [i \in 1..Len(a.nodes) |-> [a.nodes[i] EXCEPT !.dirty = FALSE]]]

\* children(node): the outgoing edge indices, in adjacency order
children(a, node) ==
    IF node \in 1..Len(a.nodes)
    THEN SelectSeq(a.nodes[node].outgoing, LAMBDA e : e \in 1..Len(a.edges))
    ELSE <<>>

\* parents(node): the incoming edge indices, in adjacency order
parents(a, node) ==
    IF node \in 1..Len(a.nodes)
    THEN SelectSeq(a.nodes[node].incoming, LAMBDA e : e \in 1..Len(a.edges))
    ELSE <<>>

\* the targets of a sequence of edge indices
Targets(a, es) == [i \in 1..Len(es) |-> a.edges[es[i]].target]

\* the sources of a sequence of edge indices
Sources(a, es) == [i \in 1..Len(es) |-> a.edges[es[i]].source]

RECURSIVE HasPathLoop(_, _, _, _)
\* the while loop of has_path: stack is popped from its end
HasPathLoop(a, stack, visited, target) ==
    IF stack = <<>> THEN FALSE
    ELSE LET current == stack[Len(stack)]
             rest == SubSeq(stack, 1, Len(stack) - 1)
         IN  IF current = target THEN TRUE
             ELSE IF current \in visited THEN HasPathLoop(a, rest, visited, target)
             ELSE LET v1 == visited \cup {current}
                      push == SelectSeq(Targets(a, children(a, current)),
                                        LAMBDA c : c \notin v1)
                  IN  HasPathLoop(a, rest \o push, v1, target)

\* mutant: looks at the direct children of source only
has_path_direct(a, source, target) ==
    source = target
        \/ \E i \in 1..Len(children(a, source)) : Targets(a, children(a, source))[i] = target

has_path(a, source, target) == HasPathLoop(a, <<source>>, {}, target)

----------------------------------------------------------------------------
(* bom-graph: BomGraph *)

Ok(v) == [ok |-> TRUE, value |-> v]

Err(kind) == [ok |-> FALSE, value |-> kind]

\* mutant: the cycle pre-check asks for a path parent -> child
add_bom_item_swapped(a, item) ==
    LET p == add_node(a, item.parent_id)
        c == add_node(p.arena, item.child_id)
    IN  IF p.index = c.index
        THEN [arena |-> c.arena, result |-> Err("CircularDependency")]
        ELSE IF has_path(c.arena, p.index, c.index)
        THEN [arena |-> c.arena, result |-> Err("CircularDependency")]
        ELSE [arena |-> add_edge(c.arena, p.index, c.index, item),
              result |-> Ok(p.index)]

\* add_bom_item on an arena: the arena afterwards and the Result returned
add_bom_item(a, item) ==
    LET p == add_node(a, item.parent_id)
        c == add_node(p.arena, item.child_id)
    IN  IF p.index = c.index
        THEN [arena |-> c.arena, result |-> Err("CircularDependency")]
        ELSE IF has_path(c.arena, c.index, p.index)
        THEN [arena |-> c.arena, result |-> Err("CircularDependency")]
        ELSE [arena |-> add_edge(c.arena, p.index, c.index, item),
              result |-> Ok(p.index)]

identify_roots(a) ==
    SelectSeq([i \in 1..Len(a.nodes) |-> i], LAMBDA i : a.nodes[i].incoming = <<>>)

\* BomGraph::mark_dirty on an arena: the arena afterwards and the Result returned
mark_dirty(a, component_id) ==
    IF find_node(a, component_id) = 0
    THEN [arena |-> a, result |-> Err("ComponentNotFound")]
    ELSE [arena |-> mark_dirty_recursive(a, find_node(a, component_id)),
          result |-> Ok(None)]

RECURSIVE FromRepositoryLoop(_, _, _)
\* the "for item in all_items { graph.add_bom_item(item)?; }" loop
FromRepositoryLoop(a, items, i) ==
    IF i > Len(items) THEN [arena |-> a, result |-> Ok(None)]
    ELSE LET r == add_bom_item(a, items[i])
         IN  IF r.result.ok THEN FromRepositoryLoop(r.arena, items, i + 1)
             ELSE [arena |-> r.arena, result |-> r.result]

\* from_repository: Ok with the graph (arena and roots), or the first error
from_repository(items) ==
    LET r == FromRepositoryLoop(NewArena, items, 1)
    IN  IF r.result.ok
        THEN [ok |-> TRUE, arena |-> r.arena, roots |-> identify_roots(r.arena)]
        ELSE [ok |-> FALSE, value |-> r.result.value]

\* a BomItem with its effectivity window (Option<DateTime>, dates as integers)
DatedBomItem(parent, child, qty, from, to) ==
    [parent_id |-> parent, child_id |-> child, quantity |-> qty,
     scrap_factor |-> DecZero, effective_from |-> from, effective_to |-> to]

is_effective_at(item, date) ==
    /\ (item.effective_from.some => date >= item.effective_from.v)
    /\ (item.effective_to.some => date <= item.effective_to.v)

\* InMemoryRepository::get_bom_items: the stored items of the parent that are
\* effective at effective_date, or at the current time now when it is None
get_bom_items(items, component_id, effective_date, now) ==
    SelectSeq(items,
              LAMBDA item : /\ item.parent_id = component_id
                            /\ is_effective_at(item, IF effective_date.some
                                                     THEN effective_date.v ELSE now))

RECURSIVE load_component_tree(_, _, _, _, _)
RECURSIVE LoadItems(_, _, _, _, _, _)
\* load_component_tree: Ok with the arena afterwards, or the first error
load_component_tree(a, repo, component_id, effective_date, now) ==
    LoadItems(add_node(a, component_id).arena, repo,
              get_bom_items(repo, component_id, effective_date, now), 1,
              effective_date, now)

\* "for item in items": add the edge, then descend into the child when
\* find_node does not find it
LoadItems(a, repo, items, i, effective_date, now) ==
    IF i > Len(items) THEN Ok(a)
    ELSE IF ~add_bom_item(a, items[i]).result.ok
    THEN Err(add_bom_item(a, items[i]).result.value)
    ELSE IF find_node(add_bom_item(a, items[i]).arena, items[i].child_id) = 0
    THEN IF ~load_component_tree(add_bom_item(a, items[i]).arena, repo,
                                 items[i].child_id, effective_date, now).ok
         THEN load_component_tree(add_bom_item(a, items[i]).arena, repo,
                                  items[i].child_id, effective_date, now)
         ELSE LoadItems(load_component_tree(add_bom_item(a, items[i]).arena, repo,
                                            items[i].child_id, effective_date, now).value,
                        repo, items, i + 1, effective_date, now)
    ELSE LoadItems(add_bom_item(a, items[i]).arena, repo, items, i + 1,
                   effective_date, now)

\* the graph from_component returns, given what load_component_tree returned
GraphOfLoaded(loaded) ==
    IF loaded.ok
    THEN [ok |-> TRUE, arena |-> loaded.value, roots |-> identify_roots(loaded.value)]
    ELSE [ok |-> FALSE, value |-> loaded.value]

\* from_component: Ok with the graph (arena and roots), or the first error
from_component(repo, component_id, effective_date, now) ==
    GraphOfLoaded(load_component_tree(NewArena, repo, component_id, effective_date, now))

----------------------------------------------------------------------------
(* bom-graph: CycleDetector *)

RECURSIVE dfs_cycle(_, _, _, _), DfsCycleChildren(_, _, _, _, _, _)
\* the "for (child, _) in children(node)" loop of dfs_cycle
DfsCycleChildren(a, node, cs, i, visited, rec_stack) ==
    IF i > Len(cs)
    THEN [found |-> FALSE, visited |-> visited, rec_stack |-> rec_stack \ {node}]
    ELSE IF cs[i] \notin visited
    THEN LET r == dfs_cycle(a, cs[i], visited, rec_stack)
         IN  IF r.found THEN r
             ELSE DfsCycleChildren(a, node, cs, i + 1, r.visited, r.rec_stack)
    ELSE IF cs[i] \in rec_stack
    THEN [found |-> TRUE, visited |-> visited, rec_stack |-> rec_stack]
    ELSE DfsCycleChildren(a, node, cs, i + 1, visited, rec_stack)

dfs_cycle(a, node, visited, rec_stack) ==
    DfsCycleChildren(a, node, Targets(a, children(a, node)), 1,
                     visited \cup {node}, rec_stack \cup {node})

RECURSIVE HasCycleLoop(_, _, _, _)
\* the loop of has_cycle over all node indices
HasCycleLoop(a, idx, visited, rec_stack) ==
    IF idx > Len(a.nodes) THEN FALSE
    ELSE IF idx \in visited THEN HasCycleLoop(a, idx + 1, visited, rec_stack)
    ELSE LET r == dfs_cycle(a, idx, visited, rec_stack)
         IN  IF r.found THEN TRUE
             ELSE HasCycleLoop(a, idx + 1, r.visited, r.rec_stack)

\* mutant: only a cycle through the first node is looked for
has_cycle_from_first(a) ==
    Len(a.nodes) > 0 /\ dfs_cycle(a, 1, {}, {}).found

has_cycle(a) == HasCycleLoop(a, 1, {}, {})

\* mutant: asks for a path in the direction of the new edge
would_create_cycle_forward(a, from, to) == has_path(a, from, to)

\* would_create_cycle: a path to -> from is already there
would_create_cycle(a, from, to) == has_path(a, to, from)

RECURSIVE dfs_find_cycles(_, _, _, _, _, _), FindCyclesChildren(_, _, _, _, _, _, _)
\* the loop of dfs_find_cycles over the children of the node on top of path
FindCyclesChildren(a, cs, i, visited, rec_stack, path, cycles) ==
    IF i > Len(cs) THEN [visited |-> visited, cycles |-> cycles]
    ELSE IF cs[i] \notin visited
    THEN LET r == dfs_find_cycles(a, cs[i], visited, rec_stack, path, cycles)
         IN  FindCyclesChildren(a, cs, i + 1, r.visited, rec_stack, path, r.cycles)
    ELSE IF cs[i] \in rec_stack /\ \E k \in 1..Len(path) : path[k] = cs[i]
    THEN FindCyclesChildren(a, cs, i + 1, visited, rec_stack, path,
             Append(cycles,
                    SubSeq(path, CHOOSE k \in 1..Len(path) :
                                     path[k] = cs[i] /\ \A j \in 1..(k - 1) : path[j] # cs[i],
                           Len(path))))
    ELSE FindCyclesChildren(a, cs, i + 1, visited, rec_stack, path, cycles)

\* dfs_find_cycles: visited and cycles after the call; the callee's pushes to
\* rec_stack and path are undone when it returns
dfs_find_cycles(a, node, visited, rec_stack, path, cycles) ==
    FindCyclesChildren(a, Targets(a, children(a, node)), 1,
                       visited \cup {node}, rec_stack \cup {node},
                       Append(path, node), cycles)

RECURSIVE FindCyclesLoop(_, _, _, _)
\* the loop of find_cycles over all node indices
FindCyclesLoop(a, idx, visited, cycles) ==
    IF idx > Len(a.nodes) THEN cycles
    ELSE IF idx \in visited THEN FindCyclesLoop(a, idx + 1, visited, cycles)
    ELSE LET r == dfs_find_cycles(a, idx, visited, {}, <<>>, cycles)
         IN  FindCyclesLoop(a, idx + 1, r.visited, r.cycles)

find_cycles(a) == FindCyclesLoop(a, 1, {}, <<>>)

\* validate_graph and BomEngine::validate
validate_graph(a) ==
    IF has_cycle(a) THEN Err("CircularDependency") ELSE Ok("unit")

----------------------------------------------------------------------------
(* Collections.  A HashMap is a function on its key set; a Vec whose order *)
(* comes from iterating a HashMap or HashSet is kept as a set, or as a bag *)
(* when it can hold an element more than once.  Where the source iterates  *)
(* a HashSet to build an ordered result, the iteration order taken here is *)
(* ascending node index.                                                   *)

MapPut(f, k, v) == [x \in DOMAIN f \cup {k} |-> IF x = k THEN v ELSE f[x]]

EmptyMap == [x \in {} |-> 0]

RECURSIVE SortedSeq(_)
SortedSeq(S) ==
    IF S = {} THEN <<>>
    ELSE LET m == CHOOSE x \in S : \A y \in S : x <= y
         IN  <<m>> \o SortedSeq(S \ {m})

SeqToBag(q) == [x \in {q[i] : i \in DOMAIN q} |-> Cardinality({i \in DOMAIN q : q[i] = x})]

RECURSIVE Concat(_)
\* concatenation of a sequence of sequences
Concat(qs) == IF qs = <<>> THEN <<>> ELSE Head(qs) \o Concat(Tail(qs))

MaxOf(S) == CHOOSE x \in S : \A y \in S : y <= x

----------------------------------------------------------------------------
(* bom-graph: traversal *)

RECURSIVE ReachableLoop(_, _, _)
\* first loop of topological_sort: the nodes reachable from the roots
ReachableLoop(a, stack, reachable) ==
    IF stack = <<>> THEN reachable
    ELSE LET node == stack[Len(stack)]
             rest == SubSeq(stack, 1, Len(stack) - 1)
         IN  IF node \in reachable THEN ReachableLoop(a, rest, reachable)
             ELSE LET r1 == reachable \cup {node}
                      push == SelectSeq(Targets(a, children(a, node)),
                                        LAMBDA c : c \notin r1)
                  IN  ReachableLoop(a, rest \o push, r1)

\* mutant: every incoming edge counts, whatever its source
InDegreeAll(a, reachable, n) == Len(parents(a, n))

\* in-degree of a reachable node: its incoming edges from reachable sources
InDegree(a, reachable, n) ==
    Len(SelectSeq(parents(a, n), LAMBDA e : a.edges[e].source \in reachable))

RECURSIVE KahnChildren(_, _, _, _, _, _)
\* the loop over the children of a popped node
KahnChildren(a, reachable, cs, i, in_degree, queue) ==
    IF i > Len(cs) THEN [in_degree |-> in_degree, queue |-> queue]
    ELSE IF cs[i] \notin reachable \/ cs[i] \notin DOMAIN in_degree
    THEN KahnChildren(a, reachable, cs, i + 1, in_degree, queue)
    ELSE LET d == in_degree[cs[i]] - 1
         IN  KahnChildren(a, reachable, cs, i + 1,
                          [in_degree EXCEPT ![cs[i]] = d],
                          IF d = 0 THEN Append(queue, cs[i]) ELSE queue)

RECURSIVE KahnLoop(_, _, _, _, _)
KahnLoop(a, reachable, in_degree, queue, res) ==
    IF queue = <<>> THEN res
    ELSE LET node == Head(queue)
             r == KahnChildren(a, reachable, Targets(a, children(a, node)), 1,
                               in_degree, Tail(queue))
         IN  KahnLoop(a, reachable, r.in_degree, r.queue, Append(res, node))

Reverse(q) == [i \in 1..Len(q) |-> q[Len(q) + 1 - i]]

\* the reachable nodes without an incoming edge from a reachable node
ZeroInDegree(a, reachable) == {n \in reachable : InDegree(a, reachable, n) = 0}

\* topological_sort: bottom-up (leaves first) over the nodes reachable from
\* rts.  The nodes of in-degree 0 enter the queue in the order the iteration
\* of the HashSet `reachable` meets them; that order changes from run to run
\* (RandomState) and is the input `order`, a sequence holding each node of
\* ZeroInDegree once.
topological_sort(a, rts, order) ==
    Reverse(KahnLoop(a, ReachableLoop(a, rts, {}),
                     [n \in ReachableLoop(a, rts, {}) |->
                         InDegree(a, ReachableLoop(a, rts, {}), n)],
                     order, <<>>))

RECURSIVE LevelsLoopFlat(_, _, _, _)
\* mutant: a node takes the highest level of its children, not one more
LevelsLoopFlat(a, topo, i, levels) ==
    IF i > Len(topo) THEN levels
    ELSE LET cs == Targets(a, children(a, topo[i]))
             known == {levels[cs[k]] : k \in {j \in 1..Len(cs) : cs[j] \in DOMAIN levels}}
             level == IF known = {} THEN 0 ELSE MaxOf(known)
         IN  LevelsLoopFlat(a, topo, i + 1, MapPut(levels, topo[i], level))

RECURSIVE LevelsLoop(_, _, _, _)
\* the loop of level_grouping over the topological order: node -> level
LevelsLoop(a, topo, i, levels) ==
    IF i > Len(topo) THEN levels
    ELSE LET cs == Targets(a, children(a, topo[i]))
             known == {levels[cs[k]] : k \in {j \in 1..Len(cs) : cs[j] \in DOMAIN levels}}
             level == IF known = {} THEN 0 ELSE MaxOf(known) + 1
         IN  LevelsLoop(a, topo, i + 1, MapPut(levels, topo[i], level))

\* the node -> level map of level_grouping as groups: position k holds the
\* nodes of level k - 1
LevelGroups(levels) ==
    [k \in 1..((IF DOMAIN levels = {} THEN 0
                ELSE MaxOf({levels[n] : n \in DOMAIN levels})) + 1) |->
        {n \in DOMAIN levels : levels[n] = k - 1}]

\* level_grouping when topological_sort takes the queue order `order`
level_grouping_in(a, rts, order) ==
    LevelGroups(LevelsLoop(a, topological_sort(a, rts, order), 1, EmptyMap))

\* level_grouping: position k holds the set of nodes of level k - 1.  A
\* node's level is fixed by its children's levels, so the groups are the same
\* for every queue order of topological_sort; they are computed here for the
\* ascending one.
level_grouping(a, rts) ==
    level_grouping_in(a, rts, SortedSeq(ZeroInDegree(a, ReachableLoop(a, rts, {}))))

RECURSIVE dfs_paths(_, _, _, _, _), DfsPathsChildren(_, _, _, _, _, _)
\* the loop of dfs_paths over the children of the current node
DfsPathsChildren(a, cs, i, target, path, visited) ==
    IF i > Len(cs) THEN <<>>
    ELSE (IF cs[i] \notin visited THEN dfs_paths(a, cs[i], target, path, visited)
          ELSE <<>>)
         \o DfsPathsChildren(a, cs, i + 1, target, path, visited)

\* dfs_paths: the paths it pushes, in order; path and visited are those of
\* the caller (the callee's push/insert is undone when it returns)
dfs_paths(a, current, target, path, visited) ==
    LET path1 == Append(path, current)
        visited1 == visited \cup {current}
    IN  IF current = target THEN <<path1>>
        ELSE DfsPathsChildren(a, Targets(a, children(a, current)), 1, target,
                              path1, visited1)

\* mutant: the search stops at the first path found
find_all_paths_first(a, source, target) ==
    IF dfs_paths(a, source, target, <<>>, {}) = <<>> THEN <<>>
    ELSE <<Head(dfs_paths(a, source, target, <<>>, {}))>>

find_all_paths(a, source, target) == dfs_paths(a, source, target, <<>>, {})

ComponentPathOf(a, path) == [i \in 1..Len(path) |-> a.nodes[path[i]].component_id]

----------------------------------------------------------------------------
(* bom-calc: ExplosionCalculator *)

\* what one parallel task of a level emits for parent_node: one entry per
\* outgoing edge, computed from the maps as they stand when the level starts
ChildrenData(a, parent_node, quantities, paths) ==
    LET es == children(a, parent_node)
    IN  [i \in 1..Len(es) |->
            [child_node |-> a.edges[es[i]].target,
             child_qty |-> DecMul(a.edges[es[i]].effective_quantity,
                                  quantities[parent_node]),
             child_paths |->
                 IF parent_node \in DOMAIN paths
                 THEN [k \in 1..Len(paths[parent_node]) |->
                          Append(paths[parent_node][k], a.edges[es[i]].target)]
                 ELSE <<>>]]

RECURSIVE AggregateOverwrite(_, _, _, _)
\* mutant: a child's quantity is overwritten instead of accumulated
AggregateOverwrite(data, i, quantities, paths) ==
    IF i > Len(data) THEN [quantities |-> quantities, paths |-> paths]
    ELSE LET c == data[i].child_node
             p0 == IF c \in DOMAIN paths THEN paths[c] ELSE <<>>
         IN  AggregateOverwrite(data, i + 1,
                                MapPut(quantities, c, data[i].child_qty),
                                MapPut(paths, c, p0 \o data[i].child_paths))

RECURSIVE Aggregate(_, _, _, _)
\* the sequential merge after a level
Aggregate(data, i, quantities, paths) ==
    IF i > Len(data) THEN [quantities |-> quantities, paths |-> paths]
    ELSE LET c == data[i].child_node
             q0 == IF c \in DOMAIN quantities THEN quantities[c] ELSE DecZero
             p0 == IF c \in DOMAIN paths THEN paths[c] ELSE <<>>
         IN  Aggregate(data, i + 1,
                       MapPut(quantities, c, DecAdd(q0, data[i].child_qty)),
                       MapPut(paths, c, p0 \o data[i].child_paths))

RECURSIVE ExplodeLevelsAscending(_, _, _, _, _)
\* mutant: the levels are walked from level 0 upwards (the .rev() is missing)
ExplodeLevelsAscending(a, levels, k, quantities, paths) ==
    IF k < 1 THEN [quantities |-> quantities, paths |-> paths]
    ELSE LET level_nodes == SelectSeq(SortedSeq(levels[Len(levels) + 1 - k]),
                                      LAMBDA n : n \in DOMAIN quantities)
             level_results == [i \in 1..Len(level_nodes) |->
                                  ChildrenData(a, level_nodes[i], quantities, paths)]
             r == Aggregate(Concat(level_results), 1, quantities, paths)
         IN  ExplodeLevelsAscending(a, levels, k - 1, r.quantities, r.paths)

RECURSIVE ExplodeLevels(_, _, _, _, _)
\* the loop over the levels, from the highest level down to level 0
ExplodeLevels(a, levels, k, quantities, paths) ==
    IF k < 1 THEN [quantities |-> quantities, paths |-> paths]
    ELSE LET level_nodes == SelectSeq(SortedSeq(levels[k]),
                                      LAMBDA n : n \in DOMAIN quantities)
             level_results == [i \in 1..Len(level_nodes) |->
                                  ChildrenData(a, level_nodes[i], quantities, paths)]
             r == Aggregate(Concat(level_results), 1, quantities, paths)
         IN  ExplodeLevels(a, levels, k - 1, r.quantities, r.paths)

ExplosionItem(a, node_idx, total_quantity, node_paths) ==
    [component_id |-> a.nodes[node_idx].component_id,
     total_quantity |-> total_quantity,
     level |-> IF node_paths = <<>> THEN 0
               ELSE MaxOf({Len(node_paths[i]) : i \in 1..Len(node_paths)}) - 1,
     paths |-> SeqToBag([i \in 1..Len(node_paths) |-> ComponentPathOf(a, node_paths[i])]),
     is_phantom |-> FALSE]

\* the ExplosionResult built from the items (lines 129-141)
ExplosionResult(component_id, items) ==
    [root_component |-> component_id,
     items |-> items,
     unique_component_count |-> Cardinality(items),
     max_depth |-> IF items = {} THEN 0 ELSE MaxOf({it.level : it \in items})]

\* one ExplosionItem per node that has a quantity (lines 90-127)
BuildItems(a, r) ==
    {ExplosionItem(a, n, r.quantities[n],
                   IF n \in DOMAIN r.paths THEN r.paths[n] ELSE <<>>) :
        n \in DOMAIN r.quantities}

\* the two maps after the level loop, started from the root's entries
ExplodeFrom(a, node, quantity, levels) ==
    ExplodeLevels(a, levels, Len(levels),
                  MapPut(EmptyMap, node, quantity),
                  MapPut(EmptyMap, node, <<(<<node>>)>>))

\* explode: Ok with the ExplosionResult (items as a set), or ComponentNotFound
explode(a, component_id, quantity) ==
    IF find_node(a, component_id) = 0 THEN Err("ComponentNotFound")
    ELSE Ok(ExplosionResult(component_id,
                BuildItems(a, ExplodeFrom(a, find_node(a, component_id), quantity,
                                          level_grouping(a, <<find_node(a, component_id)>>)))))

\* the map component id -> total quantity of an explosion result
FlattenItems(items) ==
    [cid \in {it.component_id : it \in items} |->
        (CHOOSE it \in items : it.component_id = cid).total_quantity]

\* the outcome of flatten given the outcome of explode(component_id, 1)
FlattenResult(r) == IF ~r.ok THEN r ELSE Ok(FlattenItems(r.value.items))

\* flatten: component id -> total quantity for one unit of the root
flatten(a, component_id) == FlattenResult(explode(a, component_id, DecOne))

----------------------------------------------------------------------------
(* bom-core: InMemoryRepository.  components maps the ids of the stored    *)
(* Component records to the record ([standard_cost], an Option<Decimal>).  *)

\* get_components: every requested record, or ComponentNotFound
get_components(components, ids) ==
    IF \E i \in 1..Len(ids) : ids[i] \notin DOMAIN components
    THEN Err("ComponentNotFound")
    ELSE Ok([i \in 1..Len(ids) |-> [id |-> ids[i],
                                    standard_cost |-> components[ids[i]].standard_cost]])

----------------------------------------------------------------------------
(* bom-calc: CostCalculator *)

CostBreakdown(cid, total_material_cost) ==
    [component_id |-> cid, material_cost |-> total_material_cost,
     labor_cost |-> DecZero, overhead_cost |-> DecZero, subcontract_cost |-> DecZero,
     total_cost |-> total_material_cost]

RECURSIVE ChildrenCostUnweighted(_, _, _, _)
\* mutant: a child's cost is added once, not times the edge's quantity
ChildrenCostUnweighted(a, es, i, cost_map) ==
    IF i > Len(es) THEN DecZero
    ELSE LET cid == a.nodes[a.edges[es[i]].target].component_id
             rest == ChildrenCostUnweighted(a, es, i + 1, cost_map)
         IN  IF cid \in DOMAIN cost_map
             THEN DecAdd(cost_map[cid].total_cost, rest)
             ELSE rest

RECURSIVE ChildrenCost(_, _, _, _)
\* the sum over the outgoing edges whose child has an entry in cost_map
ChildrenCost(a, es, i, cost_map) ==
    IF i > Len(es) THEN DecZero
    ELSE LET cid == a.nodes[a.edges[es[i]].target].component_id
             rest == ChildrenCost(a, es, i + 1, cost_map)
         IN  IF cid \in DOMAIN cost_map
             THEN DecAdd(DecMul(cost_map[cid].total_cost, a.edges[es[i]].effective_quantity),
                         rest)
             ELSE rest

\* what one parallel task of a level computes for node_idx
NodeCost(a, node_idx, component_data, cost_map) ==
    LET cid == a.nodes[node_idx].component_id
        own_cost == IF component_data[cid].standard_cost.some
                    THEN component_data[cid].standard_cost.v
                    ELSE DecZero
    IN  CostBreakdown(cid, DecAdd(own_cost,
                                  ChildrenCost(a, children(a, node_idx), 1, cost_map)))

RECURSIVE CostLevels(_, _, _, _, _)
\* the loop over the levels, from level 0 upwards; a level's results are
\* computed from the cost map as it stands when the level starts
CostLevels(a, levels, k, component_data, cost_map) ==
    IF k > Len(levels) THEN cost_map
    ELSE LET done == {n \in levels[k] : a.nodes[n].component_id \in DOMAIN component_data}
             ids == {a.nodes[n].component_id : n \in done}
             level_costs == [cid \in ids |->
                                NodeCost(a, CHOOSE n \in done : a.nodes[n].component_id = cid,
                                         component_data, cost_map)]
         IN  CostLevels(a, levels, k + 1, component_data,
                        [cid \in DOMAIN cost_map \cup ids |->
                            IF cid \in ids THEN level_costs[cid] ELSE cost_map[cid]])

\* calculate_all_costs: Ok with component id -> CostBreakdown, or the
\* repository's error
calculate_all_costs(a, rts, components) ==
    LET component_ids == [i \in 1..Len(a.nodes) |-> a.nodes[i].component_id]
        loaded == get_components(components, component_ids)
    IN  IF ~loaded.ok THEN loaded
        ELSE LET component_data ==
                     [cid \in {loaded.value[i].id : i \in 1..Len(loaded.value)} |->
                         CHOOSE c \in {loaded.value[i] : i \in 1..Len(loaded.value)} :
                             c.id = cid]
             IN  Ok(CostLevels(a, level_grouping(a, rts), 1, component_data, EmptyMap))

\* mutant: the cached value is returned without looking at the dirty flag
calculate_cost_ignoring_dirty(a, component_id, components) ==
    IF find_node(a, component_id) = 0 THEN Err("ComponentNotFound")
    ELSE LET node == find_node(a, component_id)
             n == a.nodes[node]
         IN  IF n.cache.total_material_cost.some
             THEN Ok(CostBreakdown(component_id, n.cache.total_material_cost.v))
             ELSE LET cost_map == calculate_all_costs(a, <<node>>, components)
                  IN  IF ~cost_map.ok THEN cost_map
                      ELSE IF component_id \in DOMAIN cost_map.value
                      THEN Ok(cost_map.value[component_id])
                      ELSE Err("CalculationError")

\* BomGraph::clear_cache: every node's cache is reset to its default
clear_cache(a) ==
    [a EXCEPT !.nodes = [i \in 1..Len(a.nodes) |->
                            [a.nodes[i] EXCEPT !.cache = [total_material_cost |-> None]]]]

calculate_cost(a, component_id, components) ==
    IF find_node(a, component_id) = 0 THEN Err("ComponentNotFound")
    ELSE LET node == find_node(a, component_id)
             n == a.nodes[node]
         IN  IF ~n.dirty /\ n.cache.total_material_cost.some
             THEN Ok(CostBreakdown(component_id, n.cache.total_material_cost.v))
             ELSE LET cost_map == calculate_all_costs(a, <<node>>, components)
                  IN  IF ~cost_map.ok THEN cost_map
                      ELSE IF component_id \in DOMAIN cost_map.value
                      THEN Ok(cost_map.value[component_id])
                      ELSE Err("CalculationError")

----------------------------------------------------------------------------
(* bom-calc: WhereUsedAnalyzer *)

\* mutant: the item carries the line's quantity without the scrap factor
WhereUsedItemNoScrap(a, rts, e) ==
    LET parent_idx == a.edges[e].source
        all_paths_idx == Concat([i \in 1..Len(rts) |-> find_all_paths(a, rts[i], parent_idx)])
        all_paths == [i \in 1..Len(all_paths_idx) |-> ComponentPathOf(a, all_paths_idx[i])]
    IN  [parent_id |-> a.nodes[parent_idx].component_id,
         quantity |-> a.edges[e].bom_item.quantity,
         level |-> IF all_paths = <<>> THEN 1
                   ELSE MaxOf({Len(all_paths[i]) : i \in 1..Len(all_paths)}),
         paths |-> all_paths]

\* the WhereUsedItem built for one incoming edge
WhereUsedItem(a, rts, e) ==
    LET parent_idx == a.edges[e].source
        all_paths_idx == Concat([i \in 1..Len(rts) |-> find_all_paths(a, rts[i], parent_idx)])
        all_paths == [i \in 1..Len(all_paths_idx) |-> ComponentPathOf(a, all_paths_idx[i])]
    IN  [parent_id |-> a.nodes[parent_idx].component_id,
         quantity |-> a.edges[e].effective_quantity,
         level |-> IF all_paths = <<>> THEN 1
                   ELSE MaxOf({Len(all_paths[i]) : i \in 1..Len(all_paths)}),
         paths |-> all_paths]

\* analyze: Ok with the WhereUsedResult, or ComponentNotFound
analyze(a, rts, component_id) ==
    IF find_node(a, component_id) = 0 THEN Err("ComponentNotFound")
    ELSE LET direct_parents == parents(a, find_node(a, component_id))
         IN  Ok([component |-> component_id,
                 used_in |-> [i \in 1..Len(direct_parents) |->
                                 WhereUsedItem(a, rts, direct_parents[i])]])

\* mutant: every root is returned, whether or not it reaches the component
find_root_assemblies_all_roots(a, rts, component_id) ==
    IF find_node(a, component_id) = 0 THEN Err("ComponentNotFound")
    ELSE Ok({a.nodes[rts[i]].component_id : i \in 1..Len(rts)})

\* find_root_assemblies: Ok with the root component ids (collected through a
\* HashSet, so each once and in no particular order), or ComponentNotFound
find_root_assemblies(a, rts, component_id) ==
    IF find_node(a, component_id) = 0 THEN Err("ComponentNotFound")
    ELSE Ok({a.nodes[rts[i]].component_id :
                i \in {j \in 1..Len(rts) :
                          find_all_paths(a, rts[j], find_node(a, component_id)) # <<>>}})

\* component ids of a sequence of node indices, as a set
ComponentIdsOf(a, ns) == {a.nodes[ns[i]].component_id : i \in 1..Len(ns)}

RECURSIVE ImpactLoopDirect(_, _, _, _)
\* mutant: the parents found are recorded but not visited in turn
ImpactLoopDirect(a, queue, visited, affected) ==
    IF queue = <<>> THEN affected
    ELSE IF queue[Len(queue)] \in visited
    THEN ImpactLoopDirect(a, SubSeq(queue, 1, Len(queue) - 1), visited, affected)
    ELSE ImpactLoopDirect(a, SubSeq(queue, 1, Len(queue) - 1),
                          visited \cup {queue[Len(queue)]},
                          affected \cup ComponentIdsOf(a, Sources(a, parents(a, queue[Len(queue)]))))

RECURSIVE ImpactLoop(_, _, _, _)
\* the while loop of analyze_change_impact: pop, skip a visited node, record
\* and push every parent
ImpactLoop(a, queue, visited, affected) ==
    IF queue = <<>> THEN affected
    ELSE IF queue[Len(queue)] \in visited
    THEN ImpactLoop(a, SubSeq(queue, 1, Len(queue) - 1), visited, affected)
    ELSE ImpactLoop(a, SubSeq(queue, 1, Len(queue) - 1)
                           \o Sources(a, parents(a, queue[Len(queue)])),
                    visited \cup {queue[Len(queue)]},
                    affected \cup ComponentIdsOf(a, Sources(a, parents(a, queue[Len(queue)]))))

\* the ImpactAnalysis built from the ancestor set (both lists are collected
\* from a HashSet)
ImpactAnalysis(a, rts, component_id, affected_components) ==
    [changed_component |-> component_id,
     affected_components |-> affected_components,
     affected_root_assemblies |->
         {cid \in ComponentIdsOf(a, rts) : cid \in affected_components}]

\* analyze_change_impact: Ok with the ImpactAnalysis, or ComponentNotFound
analyze_change_impact(a, rts, component_id) ==
    IF find_node(a, component_id) = 0 THEN Err("ComponentNotFound")
    ELSE Ok(ImpactAnalysis(a, rts, component_id,
                           ImpactLoop(a, <<find_node(a, component_id)>>, {}, {})))

RECURSIVE DescendantsLoop(_, _, _, _, _)
\* the while loop that collects the descendants of one assembly
DescendantsLoop(a, assembly, stack, visited, descendants) ==
    IF stack = <<>> THEN descendants
    ELSE IF stack[Len(stack)] \in visited
    THEN DescendantsLoop(a, assembly, SubSeq(stack, 1, Len(stack) - 1), visited, descendants)
    ELSE DescendantsLoop(a, assembly,
                         SubSeq(stack, 1, Len(stack) - 1)
                             \o Targets(a, children(a, stack[Len(stack)])),
                         visited \cup {stack[Len(stack)]},
                         IF stack[Len(stack)] # assembly
                         THEN descendants \cup {a.nodes[stack[Len(stack)]].component_id}
                         ELSE descendants)

\* the descendant set computed for one assembly node
assembly_descendants(a, assembly) == DescendantsLoop(a, assembly, <<assembly>>, {}, {})

\* the nodes of the listed ids that exist in the graph, in list order
assembly_nodes(a, assembly_ids) ==
    SelectSeq([i \in 1..Len(assembly_ids) |-> find_node(a, assembly_ids[i])],
              LAMBDA n : n # 0)

\* positions (in the list of descendant sets) of the sets that hold cid,
\* in ascending order
component_usage(descs, cid) == SortedSeq({idx \in 1..Len(descs) : cid \in descs[idx]})

\* the SharedComponent of cid: the positions index the list of ids as given
SharedComponent(assembly_ids, cid, assembly_indices) ==
    [component_id |-> cid,
     used_in_count |-> Len(assembly_indices),
     used_in_assemblies |->
         [k \in 1..Len(assembly_indices) |-> assembly_ids[assembly_indices[k]]]]

\* the components held by more than one descendant set
SharedOf(assembly_ids, descs) ==
    {SharedComponent(assembly_ids, cid, component_usage(descs, cid)) :
        cid \in {c \in UNION {descs[i] : i \in 1..Len(descs)} :
                    Len(component_usage(descs, c)) > 1}}

\* the descendant sets of the existing assemblies
DescendantSets(a, nodes) == [i \in 1..Len(nodes) |-> assembly_descendants(a, nodes[i])]

\* find_shared_components: Ok with the SharedComponents (in no particular
\* order)
find_shared_components(a, assembly_ids) ==
    IF assembly_nodes(a, assembly_ids) = <<>> THEN Ok({})
    ELSE Ok(SharedOf(assembly_ids, DescendantSets(a, assembly_nodes(a, assembly_ids))))

----------------------------------------------------------------------------
(* bom-cache: MemoryCache (L1), PersistentCache (L2) and TieredCache.       *)
(* A moka cache and a redb table are maps from key to value.  The redb      *)
(* tables hold the bytes rmp_serde::to_vec wrote.  A redb call can fail     *)
(* (the source propagates PersistentCacheError with `?`): every             *)
(* PersistentCache operation takes the outcome of the store as `fail`.      *)

MapRemove(f, k) == [x \in DOMAIN f \ {k} |-> f[x]]

\* Display of a Decimal: the digits of the mantissa with the point placed by
\* the scale, so 1 and 1.0 are different strings
DecimalDisplay(q) == <<q.m, ".", q.s>>

\* format!("{}:{}", component_id.as_str(), quantity)
make_explosion_key(component_id, quantity) ==
    <<component_id, ":", DecimalDisplay(quantity)>>

\* rmp_serde::to_vec
to_vec(v) == [msgpack |-> TRUE, of |-> v]

\* bytes in a table that are not the MessagePack encoding of the value type
GarbageBytes == [msgpack |-> FALSE]

\* rmp_serde::from_slice
from_slice(bytes) ==
    IF bytes.msgpack THEN Ok(bytes.of) ELSE Err("Deserialization")

\* MemoryCache::with_config: two empty moka caches
NewMemoryCache == [cost_cache |-> EmptyMap, explosion_cache |-> EmptyMap]

MemoryCache_get_cost(m, component_id) ==
    IF component_id \in DOMAIN m.cost_cache
    THEN Some(m.cost_cache[component_id]) ELSE None

\* mutant: an entry already cached is kept, the new value is dropped
MemoryCache_put_cost_if_absent(m, component_id, cost) ==
    IF component_id \in DOMAIN m.cost_cache THEN m
    ELSE [m EXCEPT !.cost_cache = MapPut(@, component_id, cost)]

MemoryCache_put_cost(m, component_id, cost) ==
    [m EXCEPT !.cost_cache = MapPut(@, component_id, cost)]

MemoryCache_invalidate_cost(m, component_id) ==
    [m EXCEPT !.cost_cache = MapRemove(@, component_id)]

MemoryCache_get_explosion(m, component_id, quantity) ==
    IF make_explosion_key(component_id, quantity) \in DOMAIN m.explosion_cache
    THEN Some(m.explosion_cache[make_explosion_key(component_id, quantity)])
    ELSE None

MemoryCache_put_explosion(m, component_id, quantity, res) ==
    [m EXCEPT !.explosion_cache =
        MapPut(@, make_explosion_key(component_id, quantity), res)]

\* invalidate_all() on the explosion cache, whatever the component.  No
\* method of TieredCache calls it, and the memory field is private
MemoryCache_invalidate_explosion(m, component_id) ==
    [m EXCEPT !.explosion_cache = EmptyMap]

MemoryCache_clear_all(m) == NewMemoryCache

\* the moka caches drop an entry on their own: time to live, time to idle,
\* or the capacity bound
EvictCost(m, component_id) ==
    [m EXCEPT !.cost_cache = MapRemove(@, component_id)]

EvictExplosion(m, key) ==
    [m EXCEPT !.explosion_cache = MapRemove(@, key)]

\* the two tables of a database that holds no entry: a file that did not
\* exist before, or the in-memory backend
EmptyTables == [cost_table |-> EmptyMap, explosion_table |-> EmptyMap]

\* PersistentCache::new(path): Database::create creates the file or opens the
\* one an earlier process left there, and open_table keeps the entries a
\* table holds.  `file` is the content of the path (EmptyTables when there
\* is no file yet); `fail` is the failure of create, begin_write, open_table
\* or commit
PersistentCache_new(file, fail) ==
    IF fail THEN Err("Database") ELSE Ok(file)

\* PersistentCache::in_memory: a fresh InMemoryBackend
PersistentCache_in_memory(fail) ==
    IF fail THEN Err("Database") ELSE Ok(EmptyTables)

\* Result<Option<CostBreakdown>, PersistentCacheError>
PersistentCache_get_cost(p, component_id, fail) ==
    IF fail THEN Err("Storage")
    ELSE IF component_id \in DOMAIN p.cost_table
         THEN IF from_slice(p.cost_table[component_id]).ok
              THEN Ok(Some(from_slice(p.cost_table[component_id]).value))
              ELSE Err("Deserialization")
         ELSE Ok(None)

\* the tables after the call and its Result<(), PersistentCacheError>
PersistentCache_put_cost(p, component_id, cost, fail) ==
    IF fail THEN [persistent |-> p, result |-> Err("Storage")]
    ELSE [persistent |-> [p EXCEPT !.cost_table = MapPut(@, component_id, to_vec(cost))],
          result |-> Ok("unit")]

PersistentCache_remove_cost(p, component_id, fail) ==
    IF fail THEN [persistent |-> p, result |-> Err("Storage")]
    ELSE [persistent |-> [p EXCEPT !.cost_table = MapRemove(@, component_id)],
          result |-> Ok("unit")]

PersistentCache_get_explosion(p, component_id, quantity, fail) ==
    IF fail THEN Err("Storage")
    ELSE IF make_explosion_key(component_id, quantity) \in DOMAIN p.explosion_table
         THEN IF from_slice(p.explosion_table[make_explosion_key(component_id, quantity)]).ok
              THEN Ok(Some(from_slice(
                      p.explosion_table[make_explosion_key(component_id, quantity)]).value))
              ELSE Err("Deserialization")
         ELSE Ok(None)

PersistentCache_put_explosion(p, component_id, quantity, res, fail) ==
    IF fail THEN [persistent |-> p, result |-> Err("Storage")]
    ELSE [persistent |-> [p EXCEPT !.explosion_table =
                             MapPut(@, make_explosion_key(component_id, quantity),
                                    to_vec(res))],
          result |-> Ok("unit")]

\* clear_all: the keys of both tables are listed and removed in one write
\* transaction.  `fail` is a failed begin_write, open_table, iter, remove or
\* commit: the transaction is dropped and nothing changes.  An entry that
\* cannot be read while the keys are listed (unread_cost, unread_explosion)
\* is skipped by filter_map(|item| item.ok()): it stays, and the call is Ok
PersistentCache_clear_all(p, fail, unread_cost, unread_explosion) ==
    IF fail THEN [persistent |-> p, result |-> Err("Storage")]
    ELSE [persistent |->
              [cost_table |-> [k \in DOMAIN p.cost_table \cap unread_cost |->
                                  p.cost_table[k]],
               explosion_table |->
                   [k \in DOMAIN p.explosion_table \cap unread_explosion |->
                       p.explosion_table[k]]],
          result |-> Ok("unit")]

\* TieredCache::memory_only
memory_only == [memory |-> NewMemoryCache, persistent |-> None]

\* TieredCache::with_persistent: Result<TieredCache, PersistentCacheError>;
\* the error of PersistentCache::new is passed on by `?`
with_persistent(file, fail) ==
    IF PersistentCache_new(file, fail).ok
    THEN Ok([memory |-> NewMemoryCache,
             persistent |-> Some(PersistentCache_new(file, fail).value)])
    ELSE PersistentCache_new(file, fail)

\* the cache before either constructor has run
NewCache == memory_only

\* mutant: an L2 hit is returned without being stored in L1
TieredCache_get_cost_no_promote(c, component_id, fail) ==
    IF MemoryCache_get_cost(c.memory, component_id).some
    THEN [cache |-> c, ret |-> MemoryCache_get_cost(c.memory, component_id)]
    ELSE IF c.persistent.some
         THEN IF PersistentCache_get_cost(c.persistent.v, component_id, fail).ok
                 /\ PersistentCache_get_cost(c.persistent.v, component_id, fail).value.some
              THEN [cache |-> c,
                    ret |-> PersistentCache_get_cost(c.persistent.v, component_id, fail).value]
              ELSE [cache |-> c, ret |-> None]
         ELSE [cache |-> c, ret |-> None]

\* the cache after the call and the Option<CostBreakdown> returned
TieredCache_get_cost(c, component_id, fail) ==
    IF MemoryCache_get_cost(c.memory, component_id).some
    THEN [cache |-> c, ret |-> MemoryCache_get_cost(c.memory, component_id)]
    ELSE IF c.persistent.some
         THEN IF PersistentCache_get_cost(c.persistent.v, component_id, fail).ok
                 /\ PersistentCache_get_cost(c.persistent.v, component_id, fail).value.some
              THEN [cache |-> [c EXCEPT !.memory = MemoryCache_put_cost(@, component_id,
                        PersistentCache_get_cost(c.persistent.v, component_id, fail).value.v)],
                    ret |-> PersistentCache_get_cost(c.persistent.v, component_id, fail).value]
              ELSE [cache |-> c, ret |-> None]
         ELSE [cache |-> c, ret |-> None]

\* mutant: L2 is written first and a failed write abandons the put
TieredCache_put_cost_persistent_first(c, component_id, cost, fail) ==
    IF c.persistent.some
    THEN IF fail THEN c
         ELSE [memory |-> MemoryCache_put_cost(c.memory, component_id, cost),
               persistent |-> Some(PersistentCache_put_cost(c.persistent.v, component_id,
                                                            cost, fail).persistent)]
    ELSE [c EXCEPT !.memory = MemoryCache_put_cost(@, component_id, cost)]

\* the result of persistent.put_cost is dropped (`let _ =`)
TieredCache_put_cost(c, component_id, cost, fail) ==
    IF c.persistent.some
    THEN [memory |-> MemoryCache_put_cost(c.memory, component_id, cost),
          persistent |-> Some(PersistentCache_put_cost(c.persistent.v, component_id,
                                                       cost, fail).persistent)]
    ELSE [c EXCEPT !.memory = MemoryCache_put_cost(@, component_id, cost)]

\* the result of persistent.remove_cost is dropped (`let _ =`)
TieredCache_invalidate_cost(c, component_id, fail) ==
    IF c.persistent.some
    THEN [memory |-> MemoryCache_invalidate_cost(c.memory, component_id),
          persistent |-> Some(PersistentCache_remove_cost(c.persistent.v, component_id,
                                                          fail).persistent)]
    ELSE [c EXCEPT !.memory = MemoryCache_invalidate_cost(@, component_id)]

TieredCache_get_explosion(c, component_id, quantity, fail) ==
    IF MemoryCache_get_explosion(c.memory, component_id, quantity).some
    THEN [cache |-> c, ret |-> MemoryCache_get_explosion(c.memory, component_id, quantity)]
    ELSE IF c.persistent.some
         THEN IF PersistentCache_get_explosion(c.persistent.v, component_id, quantity, fail).ok
                 /\ PersistentCache_get_explosion(c.persistent.v, component_id,
                                                  quantity, fail).value.some
              THEN [cache |-> [c EXCEPT !.memory =
                        MemoryCache_put_explosion(@, component_id, quantity,
                            PersistentCache_get_explosion(c.persistent.v, component_id,
                                                          quantity, fail).value.v)],
                    ret |-> PersistentCache_get_explosion(c.persistent.v, component_id,
                                                          quantity, fail).value]
              ELSE [cache |-> c, ret |-> None]
         ELSE [cache |-> c, ret |-> None]

TieredCache_put_explosion(c, component_id, quantity, res, fail) ==
    IF c.persistent.some
    THEN [memory |-> MemoryCache_put_explosion(c.memory, component_id, quantity, res),
          persistent |-> Some(PersistentCache_put_explosion(c.persistent.v, component_id,
                                                            quantity, res, fail).persistent)]
    ELSE [c EXCEPT !.memory = MemoryCache_put_explosion(@, component_id, quantity, res)]

\* the result of persistent.clear_all is dropped (`let _ =`)
TieredCache_clear_all(c, fail, unread_cost, unread_explosion) ==
    IF c.persistent.some
    THEN [memory |-> MemoryCache_clear_all(c.memory),
          persistent |-> Some(PersistentCache_clear_all(c.persistent.v, fail, unread_cost,
                                                        unread_explosion).persistent)]
    ELSE [c EXCEPT !.memory = MemoryCache_clear_all(@)]

----------------------------------------------------------------------------
(* Graph theory on the edge list, used to state the properties.  These     *)
(* read only (source, target) of arena.edges, never the adjacency lists.   *)

EdgePairs(a) == {<<a.edges[i].source, a.edges[i].target>> : i \in 1..Len(a.edges)}

RECURSIVE DownClosure(_, _)
DownClosure(E, S) ==
    LET S2 == S \cup {e[2] : e \in {x \in E : x[1] \in S}}
    IN  IF S2 = S THEN S ELSE DownClosure(E, S2)

RECURSIVE UpClosure(_, _)
UpClosure(E, S) ==
    LET S2 == S \cup {e[1] : e \in {x \in E : x[2] \in S}}
    IN  IF S2 = S THEN S ELSE UpClosure(E, S2)

\* nodes reachable from n along one or more edges
Descendants(a, n) == DownClosure(EdgePairs(a), {e[2] : e \in {x \in EdgePairs(a) : x[1] = n}})

\* nodes from which n is reachable along one or more edges
Ancestors(a, n) == UpClosure(EdgePairs(a), {e[1] : e \in {x \in EdgePairs(a) : x[2] = n}})

\* a directed path of zero or more edges leads from s to t
PathExists(a, s, t) == s = t \/ t \in Descendants(a, s)

HasDirectedCycle(a) == \E n \in 1..Len(a.nodes) : n \in Descendants(a, n)

\* the same on (parent_id, child_id) pairs of a list of BOM items
ItemPairs(items) == {<<items[i].parent_id, items[i].child_id>> : i \in 1..Len(items)}

ItemsContainCycle(items) ==
    \E i \in 1..Len(items) :
        items[i].parent_id \in DownClosure(ItemPairs(items), {items[i].child_id})

\* directed paths as sequences of edge indices, starting at node r
EndOf(a, r, p) == IF p = <<>> THEN r ELSE a.edges[p[Len(p)]].target

RECURSIVE GrowPaths(_, _, _)
GrowPaths(a, r, P) ==
    LET Out(p) == {i \in 1..Len(a.edges) : a.edges[i].source = EndOf(a, r, p)}
        P2 == P \cup UNION {{Append(p, e) : e \in Out(p)} : p \in P}
    IN  IF P2 = P THEN P ELSE GrowPaths(a, r, P2)

\* every directed path (of zero or more edges) from r to c, on an acyclic arena
EdgePaths(a, r, c) == {p \in GrowPaths(a, r, {<<>>}) : EndOf(a, r, p) = c}

\* the component ids along an edge path from r
PathComponents(a, r, p) ==
    [i \in 1..(Len(p) + 1) |->
        IF i = 1 THEN a.nodes[r].component_id
        ELSE a.nodes[a.edges[p[i - 1]].target].component_id]

\* quantity x (1 + scrap_factor) of the BOM line of edge e, from the line itself
LineQuantity(a, e) ==
    LET it == a.edges[e].bom_item
    IN  DecAdd(it.quantity, DecMul(it.quantity, it.scrap_factor))

RECURSIVE PathProduct(_, _)
PathProduct(a, p) ==
    IF p = <<>> THEN DecOne ELSE DecMul(LineQuantity(a, Head(p)), PathProduct(a, Tail(p)))

RECURSIVE SumOverPaths(_, _)
SumOverPaths(a, P) ==
    IF P = {} THEN DecZero
    ELSE LET p == CHOOSE x \in P : TRUE
         IN  DecAdd(PathProduct(a, p), SumOverPaths(a, P \ {p}))

\* q times the sum over all paths r -> c of the product of the edge quantities
RequiredQuantity(a, r, c, q) == DecMul(q, SumOverPaths(a, EdgePaths(a, r, c)))

\* the BOM lines of the graph's edges, as a set
Lines(a) == {a.edges[i].bom_item : i \in 1..Len(a.edges)}

----------------------------------------------------------------------------
(* Inputs *)

GraphComponents == {"A", "B", "C"}

\* every parent/child pair over three components, self-references included
GraphItems == {BomItem(p, c, Dec(1), DecZero) : p \in GraphComponents, c \in GraphComponents}

RECURSIVE SeqsUpTo(_, _)
\* all sequences over S of length at most n
SeqsUpTo(S, n) ==
    IF n = 0 THEN {<<>>}
    ELSE LET shorter == SeqsUpTo(S, n - 1)
         IN  shorter \cup {Append(q, x) : q \in {r \in shorter : Len(r) = n - 1}, x \in S}

----------------------------------------------------------------------------
(* State machine of one BomGraph value.  built tells how it was made:      *)
(* "none" before construction, "new" by BomGraph::new, "repo" by           *)
(* from_repository, "failed" when from_repository returned Err (no graph). *)

Constructed == built \in {"new", "repo"}

Init ==
    /\ arena = NewArena
    /\ roots = <<>>
    /\ built = "none"
    /\ result = [op |-> "none"]
    /\ cache = NewCache

\* BomGraph::new
New ==
    /\ built = "none"
    /\ arena' = NewArena
    /\ roots' = <<>>
    /\ built' = "new"
    /\ UNCHANGED cache
    /\ result' = [op |-> "new"]

\* BomGraph::from_repository over a repository holding items
FromRepository(items) ==
    /\ built = "none"
    /\ LET r == from_repository(items)
       IN  IF r.ok
           THEN /\ arena' = r.arena
                /\ roots' = r.roots
                /\ built' = "repo"
                /\ UNCHANGED cache
                /\ result' = [op |-> "from_repository", items |-> items, ret |-> Ok(None)]
           ELSE /\ UNCHANGED <<arena, roots>>
                /\ built' = "failed"
                /\ UNCHANGED cache
                /\ result' = [op |-> "from_repository", items |-> items,
                              ret |-> Err(r.value)]

\* BomGraph::add_bom_item
AddBomItem(item) ==
    /\ built \in {"new", "repo"}
    /\ Len(arena.edges) < MaxEdges
    /\ LET r == add_bom_item(arena, item)
       IN  /\ arena' = r.arena
           /\ result' = [op |-> "add_bom_item", item |-> item, ret |-> r.result]
    /\ UNCHANGED <<roots, built, cache>>

Next ==
    \/ New
    \/ \E items \in SeqsUpTo(GraphItems, MaxRepoItems) : FromRepository(items)
    \/ \E item \in GraphItems : AddBomItem(item)

Spec == Init /\ [][Next]_vars

----------------------------------------------------------------------------
(* State machine of a graph built from a repository and then queried.      *)
(* The repository holds the Component records CalcComponents and a list of *)
(* distinct BOM lines taken from Catalog.                                  *)

CalcComponents ==
    [cid \in {"A", "B", "C", "D"} |->
        [standard_cost |-> CASE cid = "A" -> Some(Dec(100))
                             [] cid = "B" -> Some(Dec(50))
                             [] cid = "C" -> Some(Dec(10))
                             [] cid = "D" -> None]]

\* the diamond A->B x2, A->C x1, B->D x3, C->D x2; the chain link B->C x3;
\* D->A, which closes a cycle once A reaches D; and a second line A->B with
\* quantity 1 and scrap factor 0.05
Catalog ==
    {BomItem("A", "B", Dec(2), DecZero),
     BomItem("A", "C", Dec(1), DecZero),
     BomItem("B", "D", Dec(3), DecZero),
     BomItem("C", "D", Dec(2), DecZero),
     BomItem("B", "C", Dec(3), DecZero),
     BomItem("D", "A", Dec(1), DecZero),
     BomItem("A", "B", Dec(1), [m |-> 5, s |-> 2])}

\* order quantities passed to explode
Quantities == {Dec(1), Dec(100)}

RECURSIVE DistinctSeqsUpTo(_, _)
\* all sequences of distinct elements of S of length at most n
DistinctSeqsUpTo(S, n) ==
    IF n = 0 THEN {<<>>}
    ELSE LET shorter == DistinctSeqsUpTo(S, n - 1)
         IN  shorter \cup
             UNION {{Append(q, x) : x \in S \ {q[i] : i \in 1..Len(q)}} :
                       q \in {r \in shorter : Len(r) = n - 1}}

Explode(cid, q) ==
    /\ built = "repo"
    /\ result' = [op |-> "explode", component_id |-> cid, quantity |-> q,
                  ret |-> explode(arena, cid, q)]
    /\ UNCHANGED <<arena, roots, built, cache>>

FlattenBom(cid) ==
    /\ built = "repo"
    /\ result' = [op |-> "flatten", component_id |-> cid, ret |-> flatten(arena, cid)]
    /\ UNCHANGED <<arena, roots, built, cache>>

NextExplode ==
    \/ \E items \in DistinctSeqsUpTo(Catalog, MaxItems) : FromRepository(items)
    \/ \E cid \in DOMAIN CalcComponents, q \in Quantities : Explode(cid, q)
    \/ \E cid \in DOMAIN CalcComponents : FlattenBom(cid)

SpecExplode == Init /\ [][NextExplode]_vars

CalculateAllCosts ==
    /\ built = "repo"
    /\ result' = [op |-> "calculate_all_costs",
                  ret |-> calculate_all_costs(arena, roots, CalcComponents)]
    /\ UNCHANGED <<arena, roots, built, cache>>

CalculateCost(cid) ==
    /\ built = "repo"
    /\ result' = [op |-> "calculate_cost", component_id |-> cid,
                  ret |-> calculate_cost(arena, cid, CalcComponents)]
    /\ UNCHANGED <<arena, roots, built, cache>>

NextCost ==
    \/ \E items \in DistinctSeqsUpTo(Catalog, MaxItems) : FromRepository(items)
    \/ CalculateAllCosts
    \/ \E cid \in DOMAIN CalcComponents : CalculateCost(cid)

SpecCost == Init /\ [][NextCost]_vars

Analyze(cid) ==
    /\ built = "repo"
    /\ result' = [op |-> "analyze", component_id |-> cid,
                  ret |-> analyze(arena, roots, cid)]
    /\ UNCHANGED <<arena, roots, built, cache>>

FindRootAssemblies(cid) ==
    /\ built = "repo"
    /\ result' = [op |-> "find_root_assemblies", component_id |-> cid,
                  ret |-> find_root_assemblies(arena, roots, cid)]
    /\ UNCHANGED <<arena, roots, built, cache>>

NextWhereUsed ==
    \/ \E items \in DistinctSeqsUpTo(Catalog, MaxItems) : FromRepository(items)
    \/ \E cid \in DOMAIN CalcComponents : Analyze(cid)
    \/ \E cid \in DOMAIN CalcComponents : FindRootAssemblies(cid)

SpecWhereUsed == Init /\ [][NextWhereUsed]_vars

AnalyzeChangeImpact(cid) ==
    /\ built = "repo"
    /\ result' = [op |-> "analyze_change_impact", component_id |-> cid,
                  ret |-> analyze_change_impact(arena, roots, cid)]
    /\ UNCHANGED <<arena, roots, built, cache>>

NextImpact ==
    \/ \E items \in DistinctSeqsUpTo(Catalog, MaxItems) : FromRepository(items)
    \/ \E cid \in DOMAIN CalcComponents : AnalyzeChangeImpact(cid)

SpecImpact == Init /\ [][NextImpact]_vars

\* ids handed to find_shared_components; Z is in no repository
AssemblyIds == {"A", "B", "C", "Z"}

FindSharedComponents(assembly_ids) ==
    /\ built = "repo"
    /\ result' = [op |-> "find_shared_components", assembly_ids |-> assembly_ids,
                  ret |-> find_shared_components(arena, assembly_ids)]
    /\ UNCHANGED <<arena, roots, built, cache>>

NextShared ==
    \/ \E items \in DistinctSeqsUpTo(Catalog, MaxSharedItems) : FromRepository(items)
    \/ \E ids \in SeqsUpTo(AssemblyIds, MaxAssemblies) : FindSharedComponents(ids)

SpecShared == Init /\ [][NextShared]_vars

\* dates of effectivity windows and of queries
Dates == {1, 2}

\* A->B and B->C always effective, A->C from date 2, B->D until date 1, and
\* C->A, which closes a cycle once A reaches C
DatedCatalog ==
    {DatedBomItem("A", "B", Dec(2), None, None),
     DatedBomItem("B", "C", Dec(3), None, None),
     DatedBomItem("A", "C", Dec(1), Some(2), None),
     DatedBomItem("B", "D", Dec(3), None, Some(1)),
     DatedBomItem("C", "A", Dec(1), None, None)}

\* BomGraph::from_component over a repository holding items, at time now
FromComponent(items, cid, effective_date, now) ==
    /\ built = "none"
    /\ LET r == from_component(items, cid, effective_date, now)
       IN  IF r.ok
           THEN /\ arena' = r.arena
                /\ roots' = r.roots
                /\ built' = "component"
                /\ UNCHANGED cache
                /\ result' = [op |-> "from_component", items |-> items,
                              component_id |-> cid, effective_date |-> effective_date,
                              now |-> now, ret |-> Ok(None)]
           ELSE /\ UNCHANGED <<arena, roots>>
                /\ built' = "failed"
                /\ UNCHANGED cache
                /\ result' = [op |-> "from_component", items |-> items,
                              component_id |-> cid, effective_date |-> effective_date,
                              now |-> now, ret |-> Err(r.value)]

NextComponent ==
    \E items \in DistinctSeqsUpTo(DatedCatalog, MaxComponentItems),
       cid \in DOMAIN CalcComponents,
       effective_date \in {None} \cup {Some(d) : d \in Dates},
       now \in Dates :
        FromComponent(items, cid, effective_date, now)

SpecComponent == Init /\ [][NextComponent]_vars

----------------------------------------------------------------------------
(* The tiered cache: one TieredCache, built by either constructor, used by  *)
(* one caller.  `fail` is the outcome of the one redb call the handler      *)
(* makes; it can only be TRUE when the handler reaches L2.  The result of   *)
(* a get records, as l1_hit, which branch of the handler returned.          *)

CacheBuilt == built \in {"memory_only", "with_persistent"}

CacheComponents == {"A", "B"}

\* the total costs of the CostBreakdown values put into the cache
CacheCosts == {10, 20}

\* 1, 2 and 1.0; 1 and 1.0 are equal Decimals with different Display
CacheQuantities == {Dec(1), Dec(2), [m |-> 10, s |-> 1]}

\* the explosion of a component without children: the root line alone
LeafExplosion(component_id, quantity) ==
    ExplosionResult(component_id,
        {[component_id |-> component_id, total_quantity |-> quantity, level |-> 0,
          paths |-> SeqToBag(<<<<component_id>>>>), is_phantom |-> FALSE]})

\* the components some tier holds a cost entry for
CostKeys(c) ==
    DOMAIN c.memory.cost_cache
    \cup (IF c.persistent.some THEN DOMAIN c.persistent.v.cost_table ELSE {})

\* the keys some tier holds an explosion entry for
CachedExplosionKeys(c) ==
    DOMAIN c.memory.explosion_cache
    \cup (IF c.persistent.some THEN DOMAIN c.persistent.v.explosion_table ELSE {})

CachedKeyCount(c) == Cardinality(CostKeys(c)) + Cardinality(CachedExplosionKeys(c))

\* a put of a cost entry keeps the cache within MaxCachedKeys
RoomForCost(component_id) ==
    component_id \in CostKeys(cache) \/ CachedKeyCount(cache) < MaxCachedKeys

\* a put of an explosion entry keeps the cache within MaxCachedKeys
RoomForExplosion(key) ==
    key \in CachedExplosionKeys(cache) \/ CachedKeyCount(cache) < MaxCachedKeys

MemoryOnly ==
    /\ built = "none"
    /\ cache' = memory_only
    /\ built' = "memory_only"
    /\ result' = [op |-> "memory_only"]
    /\ UNCHANGED <<arena, roots>>

\* the content of the path handed to with_persistent: no file yet, or the
\* file of an earlier process holding a cost entry or an explosion entry of A
StoredFiles ==
    {EmptyTables,
     [EmptyTables EXCEPT !.cost_table =
         MapPut(EmptyMap, "A", to_vec(CostBreakdown("A", Dec(10))))],
     [EmptyTables EXCEPT !.explosion_table =
         MapPut(EmptyMap, make_explosion_key("A", Dec(1)),
                to_vec(LeafExplosion("A", Dec(1))))]}

WithPersistent(file, fail) ==
    /\ built = "none"
    /\ IF with_persistent(file, fail).ok
       THEN /\ cache' = with_persistent(file, fail).value
            /\ built' = "with_persistent"
       ELSE /\ UNCHANGED cache
            /\ built' = "failed"
    /\ result' = [op |-> "with_persistent", file |-> file, fail |-> fail,
                  ret |-> IF with_persistent(file, fail).ok THEN Ok("cache")
                          ELSE with_persistent(file, fail)]
    /\ UNCHANGED <<arena, roots>>

GetCost(component_id, fail) ==
    /\ CacheBuilt
    /\ fail => cache.persistent.some /\ component_id \notin DOMAIN cache.memory.cost_cache
    /\ cache' = TieredCache_get_cost(cache, component_id, fail).cache
    /\ result' = [op |-> "get_cost", component_id |-> component_id, fail |-> fail,
                  l1_hit |-> MemoryCache_get_cost(cache.memory, component_id).some,
                  ret |-> TieredCache_get_cost(cache, component_id, fail).ret]
    /\ UNCHANGED <<arena, roots, built>>

PutCost(component_id, cost, fail) ==
    /\ CacheBuilt
    /\ RoomForCost(component_id)
    /\ fail => cache.persistent.some
    /\ cache' = TieredCache_put_cost(cache, component_id, cost, fail)
    /\ result' = [op |-> "put_cost", component_id |-> component_id, cost |-> cost,
                  fail |-> fail]
    /\ UNCHANGED <<arena, roots, built>>

InvalidateCost(component_id, fail) ==
    /\ CacheBuilt
    /\ fail => cache.persistent.some
    /\ cache' = TieredCache_invalidate_cost(cache, component_id, fail)
    /\ result' = [op |-> "invalidate_cost", component_id |-> component_id, fail |-> fail]
    /\ UNCHANGED <<arena, roots, built>>

GetExplosion(component_id, quantity, fail) ==
    /\ CacheBuilt
    /\ fail => /\ cache.persistent.some
               /\ make_explosion_key(component_id, quantity)
                      \notin DOMAIN cache.memory.explosion_cache
    /\ cache' = TieredCache_get_explosion(cache, component_id, quantity, fail).cache
    /\ result' = [op |-> "get_explosion", component_id |-> component_id,
                  quantity |-> quantity, fail |-> fail,
                  l1_hit |-> MemoryCache_get_explosion(cache.memory, component_id,
                                                       quantity).some,
                  ret |-> TieredCache_get_explosion(cache, component_id, quantity, fail).ret]
    /\ UNCHANGED <<arena, roots, built>>

PutExplosion(component_id, quantity, res, fail) ==
    /\ CacheBuilt
    /\ RoomForExplosion(make_explosion_key(component_id, quantity))
    /\ fail => cache.persistent.some
    /\ cache' = TieredCache_put_explosion(cache, component_id, quantity, res, fail)
    /\ result' = [op |-> "put_explosion", component_id |-> component_id,
                  quantity |-> quantity, res |-> res, fail |-> fail]
    /\ UNCHANGED <<arena, roots, built>>

\* the entries of L2 a clear_all fails to read while listing the keys: none,
\* or one entry of either table; none without an L2 and none when the call
\* fails as a whole
Unread(fail) ==
    {[cost |-> {}, explosion |-> {}]}
    \cup (IF cache.persistent.some /\ ~fail
          THEN {[cost |-> {k}, explosion |-> {}] :
                    k \in DOMAIN cache.persistent.v.cost_table}
               \cup {[cost |-> {}, explosion |-> {k}] :
                         k \in DOMAIN cache.persistent.v.explosion_table}
          ELSE {})

ClearAll(fail, unread_cost, unread_explosion) ==
    /\ CacheBuilt
    /\ fail => cache.persistent.some
    /\ cache' = TieredCache_clear_all(cache, fail, unread_cost, unread_explosion)
    /\ result' = [op |-> "clear_all", fail |-> fail, unread_cost |-> unread_cost,
                  unread_explosion |-> unread_explosion]
    /\ UNCHANGED <<arena, roots, built>>

\* moka drops an L1 entry: time to live, time to idle or capacity
Expire ==
    /\ CacheBuilt
    /\ \/ \E c \in DOMAIN cache.memory.cost_cache :
              cache' = [cache EXCEPT !.memory = EvictCost(@, c)]
       \/ \E k \in DOMAIN cache.memory.explosion_cache :
              cache' = [cache EXCEPT !.memory = EvictExplosion(@, k)]
    /\ result' = [op |-> "expire"]
    /\ UNCHANGED <<arena, roots, built>>

\* the bytes of an L2 entry are not an encoding of the current value type
\* (the file outlives the process that wrote it)
Corrupt ==
    /\ CacheBuilt
    /\ cache.persistent.some
    /\ \/ \E c \in DOMAIN cache.persistent.v.cost_table :
              cache' = [cache EXCEPT !.persistent.v.cost_table[c] = GarbageBytes]
       \/ \E k \in DOMAIN cache.persistent.v.explosion_table :
              cache' = [cache EXCEPT !.persistent.v.explosion_table[k] = GarbageBytes]
    /\ result' = [op |-> "corrupt"]
    /\ UNCHANGED <<arena, roots, built>>

NextCache ==
    \/ MemoryOnly
    \/ \E file \in StoredFiles, fail \in BOOLEAN : WithPersistent(file, fail)
    \/ \E c \in CacheComponents, fail \in BOOLEAN : GetCost(c, fail)
    \/ \E c \in CacheComponents, n \in CacheCosts, fail \in BOOLEAN :
           PutCost(c, CostBreakdown(c, Dec(n)), fail)
    \/ \E c \in CacheComponents, fail \in BOOLEAN : InvalidateCost(c, fail)
    \/ \E c \in CacheComponents, q \in CacheQuantities, fail \in BOOLEAN :
           GetExplosion(c, q, fail)
    \/ \E c \in CacheComponents, q \in CacheQuantities, fail \in BOOLEAN :
           PutExplosion(c, q, LeafExplosion(c, q), fail)
    \/ \E fail \in BOOLEAN : \E unread \in Unread(fail) :
           ClearAll(fail, unread.cost, unread.explosion)
    \/ Expire
    \/ Corrupt

SpecCache == Init /\ [][NextCache]_vars

----------------------------------------------------------------------------
(* State machine of the traversal functions over a graph built from a      *)
(* repository.  The functions take &Arena and keep nothing between calls,   *)
(* so each call is made on the graph as from_repository left it.  The start *)
(* nodes are any node indices of the arena, and the HashSet of reachable    *)
(* nodes is iterated in any order.                                          *)

\* the sequences holding each element of S once
Orders(S) == {q \in DistinctSeqsUpTo(S, Cardinality(S)) : Len(q) = Cardinality(S)}

RootLists == SeqsUpTo(1..Len(arena.nodes), MaxRoots)

\* the orders in which the nodes of in-degree 0 can enter Kahn's queue
QueueOrders(rts) == Orders(ZeroInDegree(arena, ReachableLoop(arena, rts, {})))

JustBuilt == built = "repo" /\ result.op = "from_repository"

TopologicalSort(rts, order) ==
    /\ JustBuilt
    /\ result' = [op |-> "topological_sort", roots |-> rts,
                  ret |-> topological_sort(arena, rts, order)]
    /\ UNCHANGED <<arena, roots, built, cache>>

LevelGrouping(rts, order) ==
    /\ JustBuilt
    /\ result' = [op |-> "level_grouping", roots |-> rts,
                  ret |-> level_grouping_in(arena, rts, order)]
    /\ UNCHANGED <<arena, roots, built, cache>>

FindAllPaths(source, target) ==
    /\ JustBuilt
    /\ result' = [op |-> "find_all_paths", source |-> source, target |-> target,
                  ret |-> find_all_paths(arena, source, target)]
    /\ UNCHANGED <<arena, roots, built, cache>>

NextTraversal ==
    \/ built = "none"
       /\ \E items \in DistinctSeqsUpTo(Catalog, MaxItems) : FromRepository(items)
    \/ JustBuilt
       /\ \E rts \in RootLists : \E order \in QueueOrders(rts) : TopologicalSort(rts, order)
    \/ JustBuilt
       /\ \E rts \in RootLists : \E order \in QueueOrders(rts) : LevelGrouping(rts, order)
    \/ JustBuilt
       /\ \E source \in 1..Len(arena.nodes), target \in 1..Len(arena.nodes) :
              FindAllPaths(source, target)

SpecTraversal == Init /\ [][NextTraversal]_vars

----------------------------------------------------------------------------
(* Properties of graph construction, checked under Spec *)

\* C1: a graph grown by add_bom_item never contains a directed cycle
\* (has_cycle() is false and no node reaches itself), and from_repository
\* over items that contain a cycle returns Err instead of a graph.
C1_Acyclicity ==
    /\ Constructed => ~has_cycle(arena) /\ ~HasDirectedCycle(arena)
    /\ (result.op = "from_repository" /\ ItemsContainCycle(result.items))
           => ~result.ret.ok /\ built = "failed"

\* an insertion that would close a cycle over two existing edges was rejected
C1_Witness ==
    /\ result.op = "add_bom_item"
    /\ ~result.ret.ok
    /\ result.item.parent_id # result.item.child_id
    /\ Len(arena.edges) = 2
    /\ PathExists(arena, arena.component_index[result.item.child_id],
                  arena.component_index[result.item.parent_id])

\* the edge list after a step is the one before plus one edge parent -> child
OneEdgeAdded(a, b, item) ==
    /\ Len(b.edges) = Len(a.edges) + 1
    /\ SubSeq(b.edges, 1, Len(a.edges)) = a.edges
    /\ b.nodes[b.edges[Len(b.edges)].source].component_id = item.parent_id
    /\ b.nodes[b.edges[Len(b.edges)].target].component_id = item.child_id

\* the graph before the call has a directed path from component c to component p
ComponentPath(a, c, p) ==
    /\ c \in DOMAIN a.component_index
    /\ p \in DOMAIN a.component_index
    /\ PathExists(a, a.component_index[c], a.component_index[p])

\* C2: add_bom_item(P -> C) returns CircularDependency exactly when P = C or
\* the graph already has a directed path from C to P; otherwise it returns Ok
\* and adds exactly one edge P -> C.
C2_RejectsExactlyCycles ==
    [][ (Constructed /\ result'.op = "add_bom_item") =>
          LET item == result'.item
              closes == \/ item.parent_id = item.child_id
                        \/ ComponentPath(arena, item.child_id, item.parent_id)
          IN  /\ closes <=> (~result'.ret.ok /\ result'.ret.value = "CircularDependency")
              /\ closes => arena'.edges = arena.edges
              /\ ~closes => result'.ret.ok /\ OneEdgeAdded(arena, arena', item) ]_vars

\* A -> C was accepted on top of A -> B -> C
C2_Witness ==
    /\ result.op = "add_bom_item"
    /\ result.ret.ok
    /\ result.item.parent_id = "A" /\ result.item.child_id = "C"
    /\ Len(arena.edges) = 3
    /\ \E b \in 1..Len(arena.nodes) :
          /\ arena.nodes[b].component_id = "B"
          /\ <<arena.component_index["A"], b>> \in EdgePairs(arena)
          /\ <<b, arena.component_index["C"]>> \in EdgePairs(arena)

\* the single edge of the graph was just inserted by a successful add_bom_item
FirstEdgeInserted ==
    /\ Constructed
    /\ result.op = "add_bom_item"
    /\ result.ret.ok
    /\ Len(arena.edges) = 1

\* C3 as stated: after add_bom_item(A -> B) succeeds on a graph with no other
\* edges, has_path(node of B, node of A) is true.
C3_AsStated ==
    FirstEdgeInserted =>
        has_path(arena, arena.component_index[result.item.child_id],
                 arena.component_index[result.item.parent_id])

\* C3 amended: after add_bom_item(A -> B) succeeds on a graph with no other
\* edges, has_path(node of A, node of B) is true and has_path(node of B,
\* node of A) is false; has_path follows parent -> child edges.
C3_HasPathParentToChild ==
    FirstEdgeInserted =>
        /\ has_path(arena, arena.component_index[result.item.parent_id],
                    arena.component_index[result.item.child_id])
        /\ ~has_path(arena, arena.component_index[result.item.child_id],
                     arena.component_index[result.item.parent_id])

\* A -> B is the only edge and was just inserted
C3_Witness ==
    /\ FirstEdgeInserted
    /\ result.item.parent_id = "A" /\ result.item.child_id = "B"

----------------------------------------------------------------------------
(* State machine of an arena driven through its own operations as well as  *)
(* through the graph: add_node, add_edge (which can close cycles),         *)
(* add_bom_item, mark_dirty and clear_dirty_flags.                         *)

InitArena ==
    /\ arena = NewArena
    /\ roots = <<>>
    /\ built = "new"
    /\ result = [op |-> "none"]
    /\ cache = NewCache

\* Arena::add_node
ArenaAddNode(cid) ==
    /\ arena' = add_node(arena, cid).arena
    /\ result' = [op |-> "add_node", ret |-> Ok(add_node(arena, cid).index)]
    /\ UNCHANGED <<roots, built, cache>>

\* Arena::add_edge between two existing nodes
ArenaAddEdge(parent, child) ==
    /\ Len(arena.edges) < MaxArenaEdges
    /\ arena' = add_edge(arena, parent, child,
                         BomItem(arena.nodes[parent].component_id,
                                 arena.nodes[child].component_id, Dec(1), DecZero))
    /\ result' = [op |-> "add_edge", ret |-> Ok(Len(arena.edges) + 1)]
    /\ UNCHANGED <<roots, built, cache>>

\* BomGraph::mark_dirty
MarkDirty(cid) ==
    /\ Constructed
    /\ arena' = mark_dirty(arena, cid).arena
    /\ result' = [op |-> "mark_dirty", component_id |-> cid,
                  ret |-> mark_dirty(arena, cid).result]
    /\ UNCHANGED <<roots, built, cache>>

\* Arena::clear_dirty_flags
ClearDirtyFlags ==
    /\ Constructed
    /\ \A i \in 1..Len(arena.nodes) : arena.nodes[i].version < MaxVersion
    /\ arena' = clear_dirty_flags(arena)
    /\ result' = [op |-> "clear_dirty_flags"]
    /\ UNCHANGED <<roots, built, cache>>

NextArena ==
    \/ \E cid \in GraphComponents : ArenaAddNode(cid)
    \/ \E parent \in 1..Len(arena.nodes), child \in 1..Len(arena.nodes) :
           ArenaAddEdge(parent, child)
    \/ \E item \in GraphItems : Len(arena.edges) < MaxArenaEdges /\ AddBomItem(item)
    \/ \E cid \in GraphComponents : MarkDirty(cid)
    \/ ClearDirtyFlags

SpecArena == InitArena /\ [][NextArena]_vars

----------------------------------------------------------------------------
(* State machine of the cycle detector over an arena grown by add_node and *)
(* add_edge, which check nothing: the arena can hold cycles, self-loops    *)
(* and parallel edges.                                                     *)

HasCycle ==
    /\ result' = [op |-> "has_cycle", ret |-> has_cycle(arena)]
    /\ UNCHANGED <<arena, roots, built, cache>>

FindCycles ==
    /\ result' = [op |-> "find_cycles", ret |-> find_cycles(arena)]
    /\ UNCHANGED <<arena, roots, built, cache>>

ValidateGraph ==
    /\ result' = [op |-> "validate_graph", ret |-> validate_graph(arena)]
    /\ UNCHANGED <<arena, roots, built, cache>>

WouldCreateCycle(from, to) ==
    /\ result' = [op |-> "would_create_cycle", from |-> from, to |-> to,
                  ret |-> would_create_cycle(arena, from, to)]
    /\ UNCHANGED <<arena, roots, built, cache>>

HasPath(source, target) ==
    /\ result' = [op |-> "has_path", source |-> source, target |-> target,
                  ret |-> has_path(arena, source, target)]
    /\ UNCHANGED <<arena, roots, built, cache>>

NextCycle ==
    \/ \E cid \in GraphComponents : ArenaAddNode(cid)
    \/ \E parent \in 1..Len(arena.nodes), child \in 1..Len(arena.nodes) :
           ArenaAddEdge(parent, child)
    \/ HasCycle
    \/ FindCycles
    \/ ValidateGraph
    \/ \E from \in 1..Len(arena.nodes), to \in 1..Len(arena.nodes) :
           WouldCreateCycle(from, to)
    \/ \E source \in 1..Len(arena.nodes), target \in 1..Len(arena.nodes) :
           HasPath(source, target)

SpecCycle == InitArena /\ [][NextCycle]_vars

----------------------------------------------------------------------------
(* State machine of costing over a graph whose caller maintains the node   *)
(* caches and the dirty flags: the graph is built from a repository, the   *)
(* caller stores a total into a node's public cache field through          *)
(* arena_mut().node_mut(), clears the caches, marks components dirty and   *)
(* clears the dirty flags, and calculate_cost runs against a repository    *)
(* that holds the Component records of `present`.                          *)

\* A->B x2, A->C x1, B->D x3
CostLines ==
    {BomItem("A", "B", Dec(2), DecZero),
     BomItem("A", "C", Dec(1), DecZero),
     BomItem("B", "D", Dec(3), DecZero)}

\* totals a caller stores in a node cache; no rolled-up cost of CostLines
\* equals one of them
CachedTotals == {Dec(7)}

\* the component ids a repository holds records for: all four, or all but one
ComponentSets == {DOMAIN CalcComponents \ S : S \in {{}, {"B"}, {"C"}}}

CachedNodes(a) == {i \in 1..Len(a.nodes) : a.nodes[i].cache.total_material_cost.some}

\* node.cache.total_material_cost = Some(v) through arena_mut().node_mut()
SetCachedCost(node, v) ==
    /\ built = "repo"
    /\ node \in CachedNodes(arena) \/ Cardinality(CachedNodes(arena)) < MaxCachedNodes
    /\ arena' = [arena EXCEPT !.nodes[node].cache.total_material_cost = Some(v)]
    /\ result' = [op |-> "set_cached_cost", node |-> node, v |-> v]
    /\ UNCHANGED <<roots, built, cache>>

\* BomGraph::clear_cache
ClearCache ==
    /\ built = "repo"
    /\ arena' = clear_cache(arena)
    /\ result' = [op |-> "clear_cache"]
    /\ UNCHANGED <<roots, built, cache>>

\* CostCalculator::calculate_cost over a repository holding the records of
\* the components in `present`
CalculateCostIn(cid, present) ==
    /\ built = "repo"
    /\ result' = [op |-> "calculate_cost", component_id |-> cid, present |-> present,
                  ret |-> calculate_cost(arena, cid,
                                         [c \in present |-> CalcComponents[c]])]
    /\ UNCHANGED <<arena, roots, built, cache>>

NextCachedCost ==
    \/ \E items \in DistinctSeqsUpTo(CostLines, MaxCostItems) : FromRepository(items)
    \/ \E node \in 1..Len(arena.nodes), v \in CachedTotals : SetCachedCost(node, v)
    \/ ClearCache
    \/ \E cid \in DOMAIN CalcComponents : MarkDirty(cid)
    \/ ClearDirtyFlags
    \/ \E cid \in DOMAIN CalcComponents, present \in ComponentSets :
           CalculateCostIn(cid, present)

SpecCachedCost == Init /\ [][NextCachedCost]_vars

----------------------------------------------------------------------------
(* State machine of one explode or calculate_all_costs run with the        *)
(* parallel tasks of a level taken one at a time, in any order.  `result`  *)
(* holds the locals of the run in progress: the level lists, the index k   *)
(* of the level being processed, the values the finished tasks of that     *)
(* level have produced (level_results, keyed by the task's node), and the  *)
(* shared maps.  A task is one step: the closure borrows the maps          *)
(* immutably, so nothing it reads changes while the level runs.  The merge *)
(* is the sequential code after .collect(), which returns the task values  *)
(* in the order of level_nodes whatever order the tasks ran in.            *)

\* the diamond A->B x2, A->C x1, B->D x3, C->D x2 and the chain link B->C x3
RunLines ==
    {BomItem("A", "B", Dec(2), DecZero),
     BomItem("A", "C", Dec(1), DecZero),
     BomItem("B", "D", Dec(3), DecZero),
     BomItem("C", "D", Dec(2), DecZero),
     BomItem("B", "C", Dec(3), DecZero)}

Running == result.op \in {"explode_run", "costs_run"} /\ result.phase = "tasks"

\* the locals of explode when the level loop starts (lines 30-38)
ExplodeStart(a, component_id, quantity) ==
    LET node == find_node(a, component_id)
        levels == level_grouping(a, <<node>>)
    IN  [op |-> "explode_run", phase |-> "tasks",
         component_id |-> component_id, quantity |-> quantity,
         levels |-> levels, k |-> Len(levels), level_results |-> EmptyMap,
         quantities |-> MapPut(EmptyMap, node, quantity),
         paths |-> MapPut(EmptyMap, node, <<(<<node>>)>>)]

\* mutant: the task adds its children data to the shared maps itself
ExplodeTaskWriting(a, run, parent_node) ==
    LET data == IF parent_node \in DOMAIN run.quantities
                THEN ChildrenData(a, parent_node, run.quantities, run.paths)
                ELSE <<>>
        r == Aggregate(data, 1, run.quantities, run.paths)
    IN  [run EXCEPT !.level_results = MapPut(@, parent_node, data),
                    !.quantities = r.quantities, !.paths = r.paths]

\* one task of the level: the closure of filter_map run for parent_node; a
\* parent without a quantity yields None, which collect() drops
ExplodeTask(a, run, parent_node) ==
    [run EXCEPT !.level_results =
        MapPut(@, parent_node,
               IF parent_node \in DOMAIN run.quantities
               THEN ChildrenData(a, parent_node, run.quantities, run.paths)
               ELSE <<>>)]

\* the task values of the level as collect() returns them
Collected(run) ==
    LET level_nodes == SortedSeq(run.levels[run.k])
    IN  [i \in 1..Len(level_nodes) |-> run.level_results[level_nodes[i]]]

\* the sequential merge after the level's tasks, then the next level down or,
\* after level 0, the ExplosionResult
ExplodeMerge(a, run) ==
    LET r == Aggregate(Concat(Collected(run)), 1, run.quantities, run.paths)
    IN  IF run.k > 1
        THEN [run EXCEPT !.k = @ - 1, !.level_results = EmptyMap,
                         !.quantities = r.quantities, !.paths = r.paths]
        ELSE [op |-> "explode_run", phase |-> "done",
              component_id |-> run.component_id, quantity |-> run.quantity,
              ret |-> Ok(ExplosionResult(run.component_id, BuildItems(a, r)))]

\* the locals of calculate_all_costs when the level loop starts (lines 59-77)
CostsStart(a, rts) ==
    [op |-> "costs_run", phase |-> "tasks", levels |-> level_grouping(a, rts),
     k |-> 1, level_results |-> EmptyMap, cost_map |-> EmptyMap]

\* one task of the level: the closure of filter_map run for node_idx, which
\* yields None for a node without a Component record
CostTask(a, run, node_idx, component_data) ==
    [run EXCEPT !.level_results =
        MapPut(@, node_idx,
               IF a.nodes[node_idx].component_id \in DOMAIN component_data
               THEN Some(NodeCost(a, node_idx, component_data, run.cost_map))
               ELSE None)]

\* cost_map.extend(level_costs), then the next level up or Ok(cost_map)
CostMerge(a, run) ==
    LET done == {n \in DOMAIN run.level_results : run.level_results[n].some}
        ids == {a.nodes[n].component_id : n \in done}
        cost_map == [cid \in DOMAIN run.cost_map \cup ids |->
                        IF cid \in ids
                        THEN run.level_results[CHOOSE n \in done :
                                                  a.nodes[n].component_id = cid].v
                        ELSE run.cost_map[cid]]
    IN  IF run.k < Len(run.levels)
        THEN [run EXCEPT !.k = @ + 1, !.level_results = EmptyMap, !.cost_map = cost_map]
        ELSE [op |-> "costs_run", phase |-> "done", ret |-> Ok(cost_map)]

StartExplode(cid, q) ==
    /\ built = "repo"
    /\ ~Running
    /\ find_node(arena, cid) # 0
    /\ result' = ExplodeStart(arena, cid, q)
    /\ UNCHANGED <<arena, roots, built, cache>>

RunExplodeTask(parent_node) ==
    /\ Running /\ result.op = "explode_run"
    /\ parent_node \in result.levels[result.k]
    /\ parent_node \notin DOMAIN result.level_results
    /\ result' = ExplodeTask(arena, result, parent_node)
    /\ UNCHANGED <<arena, roots, built, cache>>

RunExplodeMerge ==
    /\ Running /\ result.op = "explode_run"
    /\ DOMAIN result.level_results = result.levels[result.k]
    /\ result' = ExplodeMerge(arena, result)
    /\ UNCHANGED <<arena, roots, built, cache>>

StartCosts ==
    /\ built = "repo"
    /\ ~Running
    /\ Len(arena.nodes) > 0
    /\ result' = CostsStart(arena, roots)
    /\ UNCHANGED <<arena, roots, built, cache>>

RunCostTask(node_idx) ==
    /\ Running /\ result.op = "costs_run"
    /\ node_idx \in result.levels[result.k]
    /\ node_idx \notin DOMAIN result.level_results
    /\ result' = CostTask(arena, result, node_idx, CalcComponents)
    /\ UNCHANGED <<arena, roots, built, cache>>

RunCostMerge ==
    /\ Running /\ result.op = "costs_run"
    /\ DOMAIN result.level_results = result.levels[result.k]
    /\ result' = CostMerge(arena, result)
    /\ UNCHANGED <<arena, roots, built, cache>>

NextParallel ==
    \/ \E items \in DistinctSeqsUpTo(RunLines, MaxItems) : FromRepository(items)
    \/ \E cid \in DOMAIN CalcComponents, q \in Quantities : StartExplode(cid, q)
    \/ \E n \in 1..Len(arena.nodes) : RunExplodeTask(n)
    \/ RunExplodeMerge
    \/ StartCosts
    \/ \E n \in 1..Len(arena.nodes) : RunCostTask(n)
    \/ RunCostMerge

SpecParallel == Init /\ [][NextParallel]_vars

----------------------------------------------------------------------------
(* State machine of one TieredCache with an L2 shared by several threads.  *)
(* The cache is filled by put_cost before the threads start; from then on  *)
(* the threads call get_cost and invalidate_cost only, and no redb call    *)
(* fails.  A call on one tier (moka, or one redb transaction) is one step; *)
(* TieredCache takes no lock around the two tiers, so the steps of         *)
(* different threads interleave.  `result` holds each thread's position    *)
(* and locals, the components whose invalidate_cost has returned, and the  *)
(* last call that returned.                                                *)

Threads == {1, 2}

IdleThread == [pc |-> "idle"]

\* the threads' state; before the first call every thread is idle
ThreadsState ==
    IF result.op = "threads" THEN result
    ELSE [op |-> "threads", threads |-> [t \in Threads |-> IdleThread],
          invalidated |-> {}, last |-> [op |-> "none"]]

ThreadAt(t, pc) == built = "with_persistent" /\ ThreadsState.threads[t].pc = pc

\* put_cost by the one caller there is before the threads start
SetupPutCost(component_id, cost) ==
    /\ result.op \in {"with_persistent", "put_cost"}
    /\ PutCost(component_id, cost, FALSE)

\* get_cost, lines 45-47: the L1 lookup; `after` records that
\* invalidate_cost(component_id) had returned when the call started
GetCostL1(t, component_id) ==
    /\ ThreadAt(t, "idle")
    /\ LET st == ThreadsState
           after == component_id \in st.invalidated
           hit == MemoryCache_get_cost(cache.memory, component_id)
       IN  result' =
               IF hit.some
               THEN [st EXCEPT !.last = [op |-> "get_cost", thread |-> t,
                                         component_id |-> component_id,
                                         after |-> after, ret |-> hit]]
               ELSE [st EXCEPT !.threads[t] = [pc |-> "get_l2",
                                               component_id |-> component_id,
                                               after |-> after]]
    /\ UNCHANGED <<arena, roots, built, cache>>

\* get_cost, lines 50-51 and 57: the L2 lookup
GetCostL2(t) ==
    /\ ThreadAt(t, "get_l2")
    /\ LET st == ThreadsState
           th == st.threads[t]
           found == PersistentCache_get_cost(cache.persistent.v, th.component_id, FALSE)
       IN  result' =
               IF found.ok /\ found.value.some
               THEN [st EXCEPT !.threads[t] = [pc |-> "promote",
                                               component_id |-> th.component_id,
                                               after |-> th.after,
                                               cost |-> found.value.v]]
               ELSE [st EXCEPT !.threads[t] = IdleThread,
                               !.last = [op |-> "get_cost", thread |-> t,
                                         component_id |-> th.component_id,
                                         after |-> th.after, ret |-> None]]
    /\ UNCHANGED <<arena, roots, built, cache>>

\* get_cost, lines 52-54: the promotion to L1 and the return
GetCostPromote(t) ==
    /\ ThreadAt(t, "promote")
    /\ LET st == ThreadsState
           th == st.threads[t]
       IN  /\ cache' = [cache EXCEPT !.memory =
                            MemoryCache_put_cost(@, th.component_id, th.cost)]
           /\ result' = [st EXCEPT !.threads[t] = IdleThread,
                                   !.last = [op |-> "get_cost", thread |-> t,
                                             component_id |-> th.component_id,
                                             after |-> th.after, ret |-> Some(th.cost)]]
    /\ UNCHANGED <<arena, roots, built>>

\* invalidate_cost, line 72: the L1 invalidation
InvalidateCostL1(t, component_id) ==
    /\ ThreadAt(t, "idle")
    /\ cache' = [cache EXCEPT !.memory = MemoryCache_invalidate_cost(@, component_id)]
    /\ result' = [ThreadsState EXCEPT !.threads[t] = [pc |-> "remove_l2",
                                                      component_id |-> component_id]]
    /\ UNCHANGED <<arena, roots, built>>

\* invalidate_cost, lines 74-76: the L2 removal and the return
InvalidateCostL2(t) ==
    /\ ThreadAt(t, "remove_l2")
    /\ LET st == ThreadsState
           th == st.threads[t]
       IN  /\ cache' = [cache EXCEPT !.persistent =
                            Some(PersistentCache_remove_cost(cache.persistent.v,
                                                             th.component_id,
                                                             FALSE).persistent)]
           /\ result' = [st EXCEPT !.threads[t] = IdleThread,
                                   !.invalidated = @ \cup {th.component_id},
                                   !.last = [op |-> "invalidate_cost", thread |-> t,
                                             component_id |-> th.component_id]]
    /\ UNCHANGED <<arena, roots, built>>

NextSharedCache ==
    \/ \E file \in StoredFiles, fail \in BOOLEAN : WithPersistent(file, fail)
    \/ \E c \in CacheComponents, n \in CacheCosts : SetupPutCost(c, CostBreakdown(c, Dec(n)))
    \/ \E t \in Threads, c \in CacheComponents : GetCostL1(t, c)
    \/ \E t \in Threads : GetCostL2(t)
    \/ \E t \in Threads : GetCostPromote(t)
    \/ \E t \in Threads, c \in CacheComponents : InvalidateCostL1(t, c)
    \/ \E t \in Threads : InvalidateCostL2(t)

SpecSharedCache == Init /\ [][NextSharedCache]_vars

----------------------------------------------------------------------------
(* Properties of dirty propagation, checked under SpecArena *)

Dirty(a, n) == a.nodes[n].dirty

\* C4: every dirty node has all of its ancestors dirty, and right after
\* mark_dirty(n) succeeds the node n and every ancestor of n are dirty.
C4_DirtyClosure ==
    /\ \A n \in 1..Len(arena.nodes) :
           Dirty(arena, n) => \A m \in Ancestors(arena, n) : Dirty(arena, m)
    /\ (result.op = "mark_dirty" /\ result.ret.ok) =>
           LET n == arena.component_index[result.component_id]
           IN  \A m \in {n} \cup Ancestors(arena, n) : Dirty(arena, m)

\* mark_dirty re-marked a node below two ancestors of which one, marked in an
\* earlier round, was already dirty (its version is behind the node's)
C4_Witness ==
    /\ result.op = "mark_dirty"
    /\ result.ret.ok
    /\ LET n == arena.component_index[result.component_id]
       IN  /\ Cardinality(Ancestors(arena, n) \ {n}) >= 2
           /\ arena.nodes[n].version >= 1
           /\ \E m \in Ancestors(arena, n) : arena.nodes[m].version < arena.nodes[n].version

----------------------------------------------------------------------------
(* Properties of explosion, checked under SpecExplode *)

DiamondLines ==
    {BomItem("A", "B", Dec(2), DecZero), BomItem("A", "C", Dec(1), DecZero),
     BomItem("B", "D", Dec(3), DecZero), BomItem("C", "D", Dec(2), DecZero)}

ChainLines == {BomItem("A", "B", Dec(2), DecZero), BomItem("B", "C", Dec(3), DecZero)}

IsGraphOf(a, lines) == Len(a.edges) = Cardinality(lines) /\ Lines(a) = lines

ExplodeReturned == result.op = "explode" /\ result.ret.ok

\* the items of an explosion result for component cid
ItemsOf(res, cid) == {it \in res.items : it.component_id = cid}

\* C5: explode(R, Q) gives every descendant c exactly one item, whose
\* total_quantity is Q times the sum over all directed paths R -> c of the
\* product of the edges' effective quantities; in the diamond with Q = 1 the
\* total for D is 8.
C5_ExplosionQuantity ==
    ExplodeReturned =>
        LET r == arena.component_index[result.component_id]
        IN  /\ \A c \in Descendants(arena, r) :
                   /\ Cardinality(ItemsOf(result.ret.value, arena.nodes[c].component_id)) = 1
                   /\ \A it \in ItemsOf(result.ret.value, arena.nodes[c].component_id) :
                          DecEq(it.total_quantity,
                                RequiredQuantity(arena, r, c, result.quantity))
            /\ (IsGraphOf(arena, DiamondLines) /\ result.component_id = "A"
                    /\ result.quantity = Dec(1))
                   => \A it \in ItemsOf(result.ret.value, "D") :
                          DecEq(it.total_quantity, Dec(8))

\* explode(A, 1) returned on the diamond, with an item for D
C5_Witness ==
    /\ ExplodeReturned
    /\ IsGraphOf(arena, DiamondLines)
    /\ result.component_id = "A" /\ result.quantity = Dec(1)
    /\ ItemsOf(result.ret.value, "D") # {}

FlattenReturned == result.op = "flatten" /\ result.ret.ok

\* component ids of the descendants of the queried component
DescendantIds(a, cid) ==
    {a.nodes[c].component_id : c \in Descendants(a, a.component_index[cid])}

\* the entry of every descendant is its required quantity for one unit
FlattenQuantities ==
    \A c \in Descendants(arena, arena.component_index[result.component_id]) :
        /\ arena.nodes[c].component_id \in DOMAIN result.ret.value
        /\ DecEq(result.ret.value[arena.nodes[c].component_id],
                 RequiredQuantity(arena, arena.component_index[result.component_id],
                                  c, DecOne))

\* C6 as stated: flatten(R) has exactly one entry per descendant of R, mapped
\* to its total quantity for one unit of R, and no entry for R itself.
C6_AsStated ==
    FlattenReturned =>
        /\ DOMAIN result.ret.value = DescendantIds(arena, result.component_id)
        /\ FlattenQuantities

\* C6 amended: flatten(R) has exactly one entry per descendant of R, mapped
\* to its total quantity for one unit of R, and one entry for R itself with
\* quantity 1; for the chain A->B (2), B->C (3), flatten(A) = {A: 1, B: 2, C: 6}.
C6_FlattenWithRoot ==
    FlattenReturned =>
        /\ DOMAIN result.ret.value =
               DescendantIds(arena, result.component_id) \cup {result.component_id}
        /\ FlattenQuantities
        /\ DecEq(result.ret.value[result.component_id], DecOne)
        /\ (IsGraphOf(arena, ChainLines) /\ result.component_id = "A")
               => /\ DOMAIN result.ret.value = {"A", "B", "C"}
                  /\ DecEq(result.ret.value["B"], Dec(2))
                  /\ DecEq(result.ret.value["C"], Dec(6))

\* flatten(A) returned on the chain A->B (2), B->C (3)
C6_Witness ==
    /\ FlattenReturned
    /\ IsGraphOf(arena, ChainLines)
    /\ result.component_id = "A"

\* C7 as stated: the paths of the item for c are exactly the component-id
\* sequences of the directed paths R -> c, every one present, each beginning
\* with R and ending with c, and none twice.
C7_AsStated ==
    ExplodeReturned =>
        LET r == arena.component_index[result.component_id]
        IN  \A c \in Descendants(arena, r) \cup {r} :
                \A it \in ItemsOf(result.ret.value, arena.nodes[c].component_id) :
                    /\ DOMAIN it.paths =
                           {PathComponents(arena, r, p) : p \in EdgePaths(arena, r, c)}
                    /\ \A path \in DOMAIN it.paths :
                           /\ it.paths[path] = 1
                           /\ path[1] = result.component_id
                           /\ path[Len(path)] = it.component_id

----------------------------------------------------------------------------
(* Properties of costing, checked under SpecCost *)

\* the standard cost on record for component cid, zero when absent
OwnCost(cid) ==
    IF CalcComponents[cid].standard_cost.some
    THEN CalcComponents[cid].standard_cost.v
    ELSE DecZero

OutEdges(a, n) == {e \in 1..Len(a.edges) : a.edges[e].source = n}
InEdges(a, n) == {e \in 1..Len(a.edges) : a.edges[e].target = n}

RECURSIVE Material(_, _)
RECURSIVE SumOverChildren(_, _)
\* the rolled-up material cost of node n, by recursion over the edge list
Material(a, n) ==
    DecAdd(OwnCost(a.nodes[n].component_id), SumOverChildren(a, OutEdges(a, n)))

SumOverChildren(a, E) ==
    IF E = {} THEN DecZero
    ELSE LET e == CHOOSE x \in E : TRUE
         IN  DecAdd(DecMul(Material(a, a.edges[e].target), LineQuantity(a, e)),
                    SumOverChildren(a, E \ {e}))

RECURSIVE SumOfEntries(_, _, _)
\* the sum over the edges E of the child's entry in costs times the quantity
SumOfEntries(a, E, costs) ==
    IF E = {} THEN DecZero
    ELSE LET e == CHOOSE x \in E : TRUE
         IN  DecAdd(DecMul(costs[a.nodes[a.edges[e].target].component_id].material_cost,
                           LineQuantity(a, e)),
                    SumOfEntries(a, E \ {e}, costs))

\* C8: every entry n of the result of calculate_all_costs has material_cost(n)
\* = own standard cost of n (zero when absent) + the sum over every outgoing
\* edge n -> c of material_cost(c) times the edge's effective quantity, and
\* calculate_cost(n) returns that same rolled-up cost; for the chain A->B (2),
\* B->C (3) with own costs 100, 50, 10 the total of A is 260.
C8_CostRollup ==
    /\ (result.op = "calculate_all_costs" /\ result.ret.ok) =>
           \A cid \in DOMAIN result.ret.value :
               LET n == arena.component_index[cid]
               IN  /\ \A e \in OutEdges(arena, n) :
                          arena.nodes[arena.edges[e].target].component_id
                              \in DOMAIN result.ret.value
                   /\ DecEq(result.ret.value[cid].material_cost,
                            DecAdd(OwnCost(cid),
                                   SumOfEntries(arena, OutEdges(arena, n), result.ret.value)))
    /\ (result.op = "calculate_cost" /\ result.ret.ok) =>
           /\ result.ret.value.component_id = result.component_id
           /\ DecEq(result.ret.value.material_cost,
                    Material(arena, arena.component_index[result.component_id]))
           /\ (IsGraphOf(arena, ChainLines) /\ result.component_id = "A")
                  => DecEq(result.ret.value.total_cost, Dec(260))

\* calculate_cost(A) returned on the chain A->B (2), B->C (3)
C8_Witness ==
    /\ result.op = "calculate_cost" /\ result.ret.ok
    /\ IsGraphOf(arena, ChainLines)
    /\ result.component_id = "A"

----------------------------------------------------------------------------
(* Properties of where-used analysis, checked under SpecWhereUsed *)

\* A->B->D, C->D
SharedLines ==
    {BomItem("A", "B", Dec(2), DecZero), BomItem("B", "D", Dec(3), DecZero),
     BomItem("C", "D", Dec(2), DecZero)}

\* C9: on a graph built by from_repository, analyze(cid).used_in has one
\* WhereUsedItem per incoming edge of cid, with the edge's parent as parent_id
\* and the edge's effective quantity as quantity, and no item for a component
\* that is not a direct parent; in A->B->D, C->D the parents listed for D are
\* B and C and not A.
C9_WhereUsedDirectParents ==
    (result.op = "analyze" /\ result.ret.ok) =>
        LET n == arena.component_index[result.component_id]
            used_in == result.ret.value.used_in
            Matches(i, e) ==
                /\ used_in[i].parent_id = arena.nodes[arena.edges[e].source].component_id
                /\ DecEq(used_in[i].quantity, LineQuantity(arena, e))
        IN  /\ Len(used_in) = Cardinality(InEdges(arena, n))
            /\ \A e \in InEdges(arena, n) :
                   Cardinality({i \in 1..Len(used_in) : Matches(i, e)})
                       = Cardinality({f \in InEdges(arena, n) :
                             /\ arena.edges[f].source = arena.edges[e].source
                             /\ DecEq(LineQuantity(arena, f), LineQuantity(arena, e))})
            /\ \A i \in 1..Len(used_in) : \E e \in InEdges(arena, n) : Matches(i, e)
            /\ (IsGraphOf(arena, SharedLines) /\ result.component_id = "D")
                   => {used_in[i].parent_id : i \in 1..Len(used_in)} = {"B", "C"}

\* analyze(D) returned on A->B->D, C->D
C9_Witness ==
    /\ result.op = "analyze" /\ result.ret.ok
    /\ IsGraphOf(arena, SharedLines)
    /\ result.component_id = "D"

\* C10: on a graph built by from_repository, find_root_assemblies(cid) is
\* exactly the set of root components (nodes with no incoming edge) from
\* which a directed path (of zero or more edges) leads to cid; in A->B->D,
\* C->D the result for D is {A, C}.
C10_RootAssemblies ==
    (result.op = "find_root_assemblies" /\ result.ret.ok) =>
        LET n == arena.component_index[result.component_id]
        IN  /\ result.ret.value =
                   {arena.nodes[r].component_id :
                       r \in {x \in 1..Len(arena.nodes) :
                                 InEdges(arena, x) = {} /\ PathExists(arena, x, n)}}
            /\ (IsGraphOf(arena, SharedLines) /\ result.component_id = "D")
                   => result.ret.value = {"A", "C"}

\* find_root_assemblies(D) returned on A->B->D, C->D
C10_Witness ==
    /\ result.op = "find_root_assemblies" /\ result.ret.ok
    /\ IsGraphOf(arena, SharedLines)
    /\ result.component_id = "D"

----------------------------------------------------------------------------
(* Properties of impact analysis, checked under SpecImpact *)

\* A->B->D, A->C
ImpactLines ==
    {BomItem("A", "B", Dec(2), DecZero), BomItem("B", "D", Dec(3), DecZero),
     BomItem("A", "C", Dec(1), DecZero)}

ImpactReturned == result.op = "analyze_change_impact" /\ result.ret.ok

\* C11: analyze_change_impact(cid).affected_components is exactly the set of
\* ancestors of cid (components with a directed path of one or more edges to
\* cid); it contains neither cid nor a non-ancestor; in A->B->D, A->C the
\* result for D is {B, A}, without C.
C11_ChangeImpactAncestors ==
    ImpactReturned =>
        LET n == arena.component_index[result.component_id]
        IN  /\ result.ret.value.affected_components =
                   {arena.nodes[x].component_id : x \in Ancestors(arena, n)}
            /\ result.component_id \notin result.ret.value.affected_components
            /\ (IsGraphOf(arena, ImpactLines) /\ result.component_id = "D")
                   => result.ret.value.affected_components = {"A", "B"}

\* analyze_change_impact(D) returned on A->B->D, A->C
C11_Witness ==
    /\ ImpactReturned
    /\ IsGraphOf(arena, ImpactLines)
    /\ result.component_id = "D"

\* C12: where-used symmetry: for every component a of the graph, the queried
\* component c is in the descendant set of a (the child-edge DFS of
\* find_shared_components) if and only if a is in the ancestor set of c (the
\* affected_components of analyze_change_impact(c)).
C12_WhereUsedSymmetry ==
    ImpactReturned =>
        \A x \in 1..Len(arena.nodes) :
            (result.component_id \in assembly_descendants(arena, x))
                <=> (arena.nodes[x].component_id
                        \in result.ret.value.affected_components)

\* the ancestor set returned has a direct and an indirect user of the component
C12_Witness ==
    /\ ImpactReturned
    /\ \E x, y \in 1..Len(arena.nodes) :
           /\ x # y
           /\ {arena.nodes[x].component_id, arena.nodes[y].component_id}
                  \subseteq result.ret.value.affected_components
           /\ result.component_id \in assembly_descendants(arena, x)
           /\ result.component_id \in assembly_descendants(arena, y)

----------------------------------------------------------------------------
(* Properties of shared-component search, checked under SpecShared *)

\* the listed assemblies, in list order, whose descendant set contains cid
OwningAssemblies(a, assembly_ids, cid) ==
    SelectSeq(assembly_ids,
              LAMBDA x : x \in DOMAIN a.component_index /\ cid \in DescendantIds(a, x))

\* C13 as stated: for any list of assembly ids (in any order, existing in the
\* graph or not), find_shared_components returns a component if and only if
\* it is a descendant of at least two of the listed assemblies, with
\* used_in_assemblies the list of the assemblies whose descendant set
\* contains it and used_in_count that list's length.
C13_AsStated ==
    (result.op = "find_shared_components" /\ result.ret.ok) =>
        result.ret.value =
            {[component_id |-> cid,
              used_in_count |-> Len(OwningAssemblies(arena, result.assembly_ids, cid)),
              used_in_assemblies |-> OwningAssemblies(arena, result.assembly_ids, cid)] :
                cid \in {c \in ComponentIdsOf(arena, [i \in 1..Len(arena.nodes) |-> i]) :
                            Len(OwningAssemblies(arena, result.assembly_ids, c)) >= 2}}

----------------------------------------------------------------------------
(* Properties of from_component, checked under SpecComponent *)

\* the items of the repository that are effective at the date of the call
EffectiveItems(res) ==
    {res.items[i] : i \in {j \in 1..Len(res.items) :
        is_effective_at(res.items[j],
                        IF res.effective_date.some THEN res.effective_date.v ELSE res.now)}}

RECURSIVE ReachableIds(_, _)
\* the component ids reachable from the ids S through the items
ReachableIds(items, S) ==
    LET S2 == S \cup {it.child_id : it \in {x \in items : x.parent_id \in S}}
    IN  IF S2 = S THEN S ELSE ReachableIds(items, S2)

\* C14 as stated: the graph from_component(repo, R, D) returns contains every
\* component reachable from R at any depth through BOM items effective at D,
\* and an edge for every such item.
C14_AsStated ==
    (result.op = "from_component" /\ result.ret.ok) =>
        LET reach == ReachableIds(EffectiveItems(result), {result.component_id})
        IN  /\ DOMAIN arena.component_index = reach
            /\ Lines(arena) = {it \in EffectiveItems(result) : it.parent_id \in reach}

----------------------------------------------------------------------------
(* Properties of the root list, checked under Spec *)

\* C15 as stated: in every state of a graph made by new, from_repository or
\* from_component and grown by add_bom_item calls, roots() is exactly the set
\* of nodes whose incoming adjacency list is empty.
C15_AsStated ==
    Constructed =>
        {roots[i] : i \in 1..Len(roots)} =
            {n \in 1..Len(arena.nodes) : arena.nodes[n].incoming = <<>>}

----------------------------------------------------------------------------
(* Tiered cache *)

CostValues == {CostBreakdown(c, Dec(n)) : c \in CacheComponents, n \in CacheCosts}

ExplosionValues == {LeafExplosion(c, q) : c \in CacheComponents, q \in CacheQuantities}

\* this step is a call of `op`
Called(op) == result'.op = op /\ vars' # vars

\* L2 holds the encoding of v for the component and the store answers
L2CostHit(c, component_id, v, fail) ==
    /\ c.persistent.some
    /\ ~fail
    /\ component_id \in DOMAIN c.persistent.v.cost_table
    /\ c.persistent.v.cost_table[component_id] = to_vec(v)

L2ExplosionHit(c, key, v, fail) ==
    /\ c.persistent.some
    /\ ~fail
    /\ key \in DOMAIN c.persistent.v.explosion_table
    /\ c.persistent.v.explosion_table[key] = to_vec(v)

\* a get_cost that misses in L1 and finds v in L2 returns v and leaves v in
\* L1; a get_cost that finds the key in L1 returns L1's value whatever L2
\* holds or answers, and changes nothing
PromotionCost ==
    /\ \A v \in CostValues :
           Called("get_cost")
           /\ result'.component_id \notin DOMAIN cache.memory.cost_cache
           /\ L2CostHit(cache, result'.component_id, v, result'.fail)
           => /\ result'.ret = Some(v)
              /\ result'.component_id \in DOMAIN cache'.memory.cost_cache
              /\ cache'.memory.cost_cache[result'.component_id] = v
              /\ cache'.persistent = cache.persistent
    /\ Called("get_cost") /\ result'.component_id \in DOMAIN cache.memory.cost_cache
       => /\ result'.ret = Some(cache.memory.cost_cache[result'.component_id])
          /\ cache' = cache

PromotionExplosion ==
    /\ \A v \in ExplosionValues :
           Called("get_explosion")
           /\ make_explosion_key(result'.component_id, result'.quantity)
                  \notin DOMAIN cache.memory.explosion_cache
           /\ L2ExplosionHit(cache, make_explosion_key(result'.component_id, result'.quantity),
                             v, result'.fail)
           => /\ result'.ret = Some(v)
              /\ make_explosion_key(result'.component_id, result'.quantity)
                     \in DOMAIN cache'.memory.explosion_cache
              /\ cache'.memory.explosion_cache[
                     make_explosion_key(result'.component_id, result'.quantity)] = v
              /\ cache'.persistent = cache.persistent
    /\ Called("get_explosion")
       /\ make_explosion_key(result'.component_id, result'.quantity)
              \in DOMAIN cache.memory.explosion_cache
       => /\ result'.ret = Some(cache.memory.explosion_cache[
                                make_explosion_key(result'.component_id, result'.quantity)])
          /\ cache' = cache

\* C16: a TieredCache get_cost (or get_explosion) that misses in L1 and hits
\* in L2 with value v returns v and stores v in L1, and a lookup of a key L1
\* holds returns L1's value without reading L2, so the next lookup of the
\* promoted key returns v from L1.
C16_TieredPromotion == [][PromotionCost /\ PromotionExplosion]_vars

\* a get_cost has just returned a value it found in L2, and L1 now holds it
C16_Witness ==
    /\ result.op = "get_cost"
    /\ ~result.l1_hit
    /\ result.ret.some
    /\ result.component_id \in DOMAIN cache.memory.cost_cache
    /\ cache.memory.cost_cache[result.component_id] = result.ret.v

\* put_cost leaves its value in L1; a get_cost of a key L1 holds returns L1's
\* value; a step keeps the L1 entry of c unless it is invalidate_cost(c),
\* clear_all, an expiry or a put_cost(c)
ReadAfterWriteCost ==
    /\ Called("put_cost")
       => /\ result'.component_id \in DOMAIN cache'.memory.cost_cache
          /\ cache'.memory.cost_cache[result'.component_id] = result'.cost
    /\ Called("get_cost") /\ result'.component_id \in DOMAIN cache.memory.cost_cache
       => result'.ret = Some(cache.memory.cost_cache[result'.component_id])
    /\ \A c \in DOMAIN cache.memory.cost_cache :
           \/ result'.op \in {"clear_all", "expire"}
           \/ result'.op \in {"invalidate_cost", "put_cost"} /\ result'.component_id = c
           \/ /\ c \in DOMAIN cache'.memory.cost_cache
              /\ cache'.memory.cost_cache[c] = cache.memory.cost_cache[c]

\* the same for put_explosion and get_explosion under the key of (c, q)
ReadAfterWriteExplosion ==
    /\ Called("put_explosion")
       => /\ make_explosion_key(result'.component_id, result'.quantity)
                 \in DOMAIN cache'.memory.explosion_cache
          /\ cache'.memory.explosion_cache[
                 make_explosion_key(result'.component_id, result'.quantity)] = result'.res
    /\ Called("get_explosion")
       /\ make_explosion_key(result'.component_id, result'.quantity)
              \in DOMAIN cache.memory.explosion_cache
       => result'.ret = Some(cache.memory.explosion_cache[
                                make_explosion_key(result'.component_id, result'.quantity)])
    /\ \A k \in DOMAIN cache.memory.explosion_cache :
           \/ result'.op \in {"clear_all", "expire"}
           \/ /\ result'.op = "put_explosion"
              /\ make_explosion_key(result'.component_id, result'.quantity) = k
           \/ /\ k \in DOMAIN cache'.memory.explosion_cache
              /\ cache'.memory.explosion_cache[k] = cache.memory.explosion_cache[k]

\* a put_explosion(c, q, r) stores nothing under the key of another quantity
\* (or component), and a get_explosion(c, q') that finds nothing under its own
\* key in either tier misses
OtherQuantityMisses ==
    /\ Called("put_explosion")
       => \A c \in CacheComponents, q \in CacheQuantities :
              (c # result'.component_id \/ q # result'.quantity)
              => /\ make_explosion_key(c, q) \in CachedExplosionKeys(cache')
                    <=> make_explosion_key(c, q) \in CachedExplosionKeys(cache)
                 /\ make_explosion_key(c, q) # make_explosion_key(result'.component_id,
                                                                   result'.quantity)
    /\ Called("get_explosion")
       /\ make_explosion_key(result'.component_id, result'.quantity)
              \notin CachedExplosionKeys(cache)
       => result'.ret = None

\* C17: on one cache used by one caller, put_cost(c, v) followed by
\* get_cost(c) with no invalidate_cost(c), clear_all or expiry in between
\* returns v, the value of the most recent put_cost for c; put_explosion(c, q,
\* r) followed by get_explosion(c, q) likewise returns r, and get_explosion(c,
\* q') for another quantity q' misses unless something was put for (c, q').
\* Stated step by step: a put leaves its value in L1, no other step changes
\* that L1 entry, and a get returns the L1 entry it finds.  A quantity is the
\* Decimal as displayed: 1 and 1.0 are different quantities here.
C17_ReadAfterWrite ==
    [][ReadAfterWriteCost /\ ReadAfterWriteExplosion /\ OtherQuantityMisses]_vars

\* on a memory-only cache a get_cost has returned the second value put for A
C17_Witness ==
    /\ built = "memory_only"
    /\ result.op = "get_cost"
    /\ result.component_id = "A"
    /\ result.ret = Some(CostBreakdown("A", Dec(20)))
    /\ "B" \in DOMAIN cache.memory.cost_cache

\* C18: after TieredCache::invalidate_cost(c) returns, the cost entry for c
\* is absent from both L1 and L2, so that get_cost(c) returns None until the
\* next put_cost(c).
C18_AsStated ==
    result.op = "invalidate_cost"
        => /\ result.component_id \notin CostKeys(cache)
           /\ TieredCache_get_cost(cache, result.component_id, FALSE).ret = None

\* invalidate_cost(A) has returned after its L2 removal failed, A is gone
\* from L1 and still in L2, and the next get_cost(A) returns the old value
C18_StaleAfterFailedRemoval ==
    /\ result.op = "invalidate_cost"
    /\ result.component_id = "A"
    /\ result.fail
    /\ "A" \notin DOMAIN cache.memory.cost_cache
    /\ "A" \in DOMAIN cache.persistent.v.cost_table
    /\ TieredCache_get_cost(cache, "A", FALSE).ret.some

\* invalidate_cost(c) empties L1 of c, and L2 too unless its removal failed;
\* a key neither tier holds stays absent until a put_cost of it, and a get_cost
\* of it returns None
InvalidatedCost ==
    /\ Called("invalidate_cost")
       => /\ result'.component_id \notin DOMAIN cache'.memory.cost_cache
          /\ ~result'.fail => result'.component_id \notin CostKeys(cache')
          /\ \A c \in CacheComponents \ {result'.component_id} :
                 /\ MemoryCache_get_cost(cache'.memory, c)
                        = MemoryCache_get_cost(cache.memory, c)
                 /\ c \in CostKeys(cache') <=> c \in CostKeys(cache)
    /\ CacheBuilt
       => \A c \in CacheComponents \ CostKeys(cache) :
              \/ result'.op = "put_cost" /\ result'.component_id = c
              \/ c \notin CostKeys(cache')
    /\ Called("get_cost") /\ result'.component_id \notin CostKeys(cache)
       => result'.ret = None

\* what invalidate_cost does keep: L1 never holds c afterwards, a removal
\* that did not fail empties L2 of c as well, and the entries of the other
\* components stay
InvalidateCostWithoutFault == [][InvalidatedCost]_vars

\* invalidate_cost(A) has succeeded on a two-tier cache that still holds B in
\* both tiers
InvalidateCostSucceeded ==
    /\ result.op = "invalidate_cost"
    /\ result.component_id = "A"
    /\ ~result.fail
    /\ cache.persistent.some
    /\ "B" \in DOMAIN cache.memory.cost_cache
    /\ "B" \in DOMAIN cache.persistent.v.cost_table
    /\ "A" \notin CostKeys(cache)

\* the L2 lookup of a cost fails: the store fails, or the stored bytes do not
\* deserialize
L2CostLookupFails(c, component_id, fail) ==
    /\ c.persistent.some
    /\ \/ fail
       \/ /\ component_id \in DOMAIN c.persistent.v.cost_table
          /\ c.persistent.v.cost_table[component_id] = GarbageBytes

L2ExplosionLookupFails(c, key, fail) ==
    /\ c.persistent.some
    /\ \/ fail
       \/ /\ key \in DOMAIN c.persistent.v.explosion_table
          /\ c.persistent.v.explosion_table[key] = GarbageBytes

\* a get that reaches L2 and whose L2 lookup fails returns None
FailedReadMisses ==
    /\ Called("get_cost")
       /\ ~result'.l1_hit
       /\ L2CostLookupFails(cache, result'.component_id, result'.fail)
       => result'.ret = None /\ cache' = cache
    /\ Called("get_explosion")
       /\ ~result'.l1_hit
       /\ L2ExplosionLookupFails(cache, make_explosion_key(result'.component_id,
                                                           result'.quantity), result'.fail)
       => result'.ret = None /\ cache' = cache

\* a put whose L2 write fails leaves the new value in L1 and L2 as it was
FailedWriteKeepsL1 ==
    /\ Called("put_cost") /\ result'.fail
       => /\ MemoryCache_get_cost(cache'.memory, result'.component_id) = Some(result'.cost)
          /\ cache'.persistent = cache.persistent
    /\ Called("put_explosion") /\ result'.fail
       => /\ MemoryCache_get_explosion(cache'.memory, result'.component_id,
                                       result'.quantity) = Some(result'.res)
          /\ cache'.persistent = cache.persistent

\* C19: a TieredCache get_cost or get_explosion whose L2 lookup fails (the
\* store fails, or the stored value does not deserialize) returns None, never
\* an error; a put_cost or put_explosion whose L2 write fails still completes
\* and leaves the new value in L1.
C19_ErrorPolicy == [][FailedReadMisses /\ FailedWriteKeepsL1]_vars

\* a get_cost has found bytes in L2 that do not deserialize and returned None
C19_Witness ==
    /\ result.op = "get_cost"
    /\ ~result.fail
    /\ ~result.l1_hit
    /\ cache.persistent.some
    /\ result.component_id \in DOMAIN cache.persistent.v.cost_table
    /\ cache.persistent.v.cost_table[result.component_id] = GarbageBytes
    /\ result.ret = None

\* a call of the TieredCache in which no redb operation fails
TieredCall ==
    \/ \E c \in CacheComponents : GetCost(c, FALSE)
    \/ \E c \in CacheComponents, n \in CacheCosts :
           PutCost(c, CostBreakdown(c, Dec(n)), FALSE)
    \/ \E c \in CacheComponents : InvalidateCost(c, FALSE)
    \/ \E c \in CacheComponents, q \in CacheQuantities : GetExplosion(c, q, FALSE)
    \/ \E c \in CacheComponents, q \in CacheQuantities :
           PutExplosion(c, q, LeafExplosion(c, q), FALSE)
    \/ ClearAll(FALSE, {}, {})

\* the call emptied the explosion tier and kept the cost entries
ExplosionTierInvalidated ==
    /\ CachedExplosionKeys(cache') = {}
    /\ \A c \in CacheComponents, q \in CacheQuantities :
           TieredCache_get_explosion(cache', c, q, FALSE).ret = None
    /\ cache'.memory.cost_cache = cache.memory.cost_cache
    /\ cache'.persistent.some
       => cache'.persistent.v.cost_table = cache.persistent.v.cost_table

\* C20: the explosion results can be invalidated, and invalidating them
\* clears the whole explosion tier: the tiered cache has a call after which
\* no explosion entry for any (component, quantity) remains in the L1
\* explosion cache or in the L2 explosion table, so that every tiered
\* get_explosion misses until the next put_explosion, and which leaves the
\* cost entries untouched.
C20_AsStated ==
    CacheBuilt => ENABLED (TieredCall /\ ExplosionTierInvalidated)

\* the call the TieredCache has for a changed component, invalidate_cost,
\* leaves every explosion entry of both tiers where it was
InvalidateCostKeepsExplosions ==
    [][Called("invalidate_cost")
       => /\ cache'.memory.explosion_cache = cache.memory.explosion_cache
          /\ cache'.persistent.some
             => cache'.persistent.v.explosion_table
                    = cache.persistent.v.explosion_table]_vars

\* an explosion entry leaves L2 through clear_all only
OnlyClearAllEmptiesL2Explosions ==
    [][(CacheBuilt /\ cache.persistent.some)
       => \A k \in DOMAIN cache.persistent.v.explosion_table :
              \/ result'.op = "clear_all"
              \/ k \in DOMAIN cache'.persistent.v.explosion_table]_vars

\* invalidate_cost(A) has returned on a two-tier cache, and get_explosion(A, 1)
\* still returns the explosion put before
C20_StaleExplosion ==
    /\ result.op = "invalidate_cost"
    /\ result.component_id = "A"
    /\ ~result.fail
    /\ cache.persistent.some
    /\ make_explosion_key("A", Dec(1)) \in DOMAIN cache.memory.explosion_cache
    /\ make_explosion_key("A", Dec(1)) \in DOMAIN cache.persistent.v.explosion_table
    /\ TieredCache_get_explosion(cache, "A", Dec(1), FALSE).ret
           = Some(LeafExplosion("A", Dec(1)))

----------------------------------------------------------------------------
(* Traversal, checked under SpecTraversal *)

\* the nodes reachable from the start nodes along zero or more edges
ReachableFrom(a, rts) == DownClosure(EdgePairs(a), {rts[i] : i \in DOMAIN rts})

ChildNodes(a, n) == {e[2] : e \in {x \in EdgePairs(a) : x[1] = n}}

\* the level of the group that holds n
GroupLevel(groups, n) == (CHOOSE k \in DOMAIN groups : n \in groups[k]) - 1

\* 0 for a node without children, else 1 + the highest level of its children
LevelRule(a, groups, n) ==
    GroupLevel(groups, n) =
        IF ChildNodes(a, n) = {} THEN 0
        ELSE 1 + MaxOf({GroupLevel(groups, c) : c \in ChildNodes(a, n)})

\* C22: on a DAG, for a non-empty root list, level_grouping puts every node
\* reachable from the roots in exactly one group and no other node in any
\* group; a node without children has level 0, any other node 1 + the highest
\* level of its children; so every edge p -> c between reachable nodes has
\* level(p) > level(c).
C22_LevelGrouping ==
    result.op = "level_grouping" /\ result.roots # <<>> /\ ~HasDirectedCycle(arena)
    => /\ UNION {result.ret[k] : k \in DOMAIN result.ret}
              = ReachableFrom(arena, result.roots)
       /\ \A k \in DOMAIN result.ret, j \in DOMAIN result.ret :
              k # j => result.ret[k] \cap result.ret[j] = {}
       /\ \A n \in ReachableFrom(arena, result.roots) : LevelRule(arena, result.ret, n)
       /\ \A e \in EdgePairs(arena) :
              e[1] \in ReachableFrom(arena, result.roots)
              => GroupLevel(result.ret, e[1]) > GroupLevel(result.ret, e[2])

\* a grouping with three levels, one of them holding two nodes, whose start
\* node has a child two levels below it as well as one level below it
C22_Witness ==
    /\ result.op = "level_grouping"
    /\ Len(result.roots) = 1
    /\ Len(result.ret) >= 3
    /\ \E k \in DOMAIN result.ret : Cardinality(result.ret[k]) = 2
    /\ \E c \in ChildNodes(arena, result.roots[1]) :
           GroupLevel(result.ret, c) + 1 < GroupLevel(result.ret, result.roots[1])

\* the groups level_grouping returns are the same for every queue order of
\* topological_sort: those computed for the ascending order
LevelGroupingOrderFree ==
    result.op = "level_grouping" => result.ret = level_grouping(arena, result.roots)

\* position of a node in the returned order
PositionIn(q, n) == CHOOSE i \in DOMAIN q : q[i] = n

\* C23: on a DAG, topological_sort(arena, roots) returns every node reachable
\* from the given roots exactly once and no other node, every child before
\* each of its parents, also when a start node has parents outside the
\* reachable set.
C23_TopologicalSort ==
    result.op = "topological_sort" /\ ~HasDirectedCycle(arena)
    => /\ {result.ret[i] : i \in DOMAIN result.ret} = ReachableFrom(arena, result.roots)
       /\ Len(result.ret) = Cardinality(ReachableFrom(arena, result.roots))
       /\ \A e \in EdgePairs(arena) :
              e[1] \in ReachableFrom(arena, result.roots)
              => PositionIn(result.ret, e[2]) < PositionIn(result.ret, e[1])

\* a sort of three or more nodes from a start node that has a parent outside
\* the reachable set
C23_Witness ==
    /\ result.op = "topological_sort"
    /\ Len(result.ret) >= 3
    /\ \E i \in DOMAIN result.roots : \E e \in EdgePairs(arena) :
           e[2] = result.roots[i] /\ e[1] \notin ReachableFrom(arena, result.roots)

\* the nodes along an edge path from r
NodePath(a, r, p) ==
    [i \in 1..(Len(p) + 1) |-> IF i = 1 THEN r ELSE a.edges[p[i - 1]].target]

\* the directed paths from s to t as node sequences
DirectedPaths(a, s, t) == {NodePath(a, s, p) : p \in EdgePaths(a, s, t)}

FollowsEdges(a, q) == \A i \in 1..(Len(q) - 1) : <<q[i], q[i + 1]>> \in EdgePairs(a)

\* C24: find_all_paths(src, tgt) returns exactly the directed paths from src
\* to tgt: each returned sequence starts with src, ends with tgt, follows
\* existing edges and repeats no node; every such path is returned; the result
\* is empty when tgt is not reachable from src and the single path [src] when
\* src = tgt; a node shared by two paths appears in both.
C24_FindAllPaths ==
    result.op = "find_all_paths"
    => /\ \A i \in DOMAIN result.ret :
              /\ result.ret[i][1] = result.source
              /\ result.ret[i][Len(result.ret[i])] = result.target
              /\ FollowsEdges(arena, result.ret[i])
              /\ Cardinality({result.ret[i][k] : k \in DOMAIN result.ret[i]})
                     = Len(result.ret[i])
       /\ {result.ret[i] : i \in DOMAIN result.ret}
              = DirectedPaths(arena, result.source, result.target)
       /\ ~PathExists(arena, result.source, result.target) => result.ret = <<>>
       /\ result.source = result.target => result.ret = <<<<result.source>>>>

\* two different paths were returned, and they share a node that is neither
\* the source nor the target
C24_Witness ==
    /\ result.op = "find_all_paths"
    /\ \E i \in DOMAIN result.ret, j \in DOMAIN result.ret :
           /\ result.ret[i] # result.ret[j]
           /\ \E k \in 2..(Len(result.ret[i]) - 1), l \in 2..(Len(result.ret[j]) - 1) :
                  result.ret[i][k] = result.ret[j][l]

----------------------------------------------------------------------------
(* Cycle detection, checked under SpecCycle *)

\* the arena with one more edge from -> to
WithEdge(a, from, to) ==
    add_edge(a, from, to,
             BomItem(a.nodes[from].component_id, a.nodes[to].component_id, Dec(1), DecZero))

\* C25: has_path(s, t) is true exactly when t is reachable from s along zero
\* or more parent -> child edges; would_create_cycle(from, to) is true exactly
\* when from is reachable from to; so on an acyclic arena
\* would_create_cycle(from, to) is true if and only if the arena with the edge
\* from -> to added has a cycle, and has_cycle() says so.
C25_WouldCreateCycle ==
    /\ result.op = "has_path"
       => result.ret = PathExists(arena, result.source, result.target)
    /\ result.op = "would_create_cycle"
       => /\ result.ret = PathExists(arena, result.to, result.from)
          /\ ~HasDirectedCycle(arena)
             => /\ result.ret = HasDirectedCycle(WithEdge(arena, result.from, result.to))
                /\ result.ret = has_cycle(WithEdge(arena, result.from, result.to))

\* on an acyclic arena would_create_cycle(from, to) is true for two nodes
\* joined by a path of two edges and by no single edge
C25_Witness ==
    /\ result.op = "would_create_cycle"
    /\ result.ret
    /\ ~HasDirectedCycle(arena)
    /\ result.from # result.to
    /\ <<result.to, result.from>> \notin EdgePairs(arena)

\* C26: for any arena, also one grown by add_edge directly, has_cycle() is
\* true if and only if the arena holds a directed cycle anywhere, reachable
\* from a root or not; find_cycles() is non-empty exactly then; validate_graph
\* (BomEngine::validate) returns CircularDependency exactly then and Ok
\* otherwise.
C26_CycleDetection ==
    /\ result.op = "has_cycle" => result.ret = HasDirectedCycle(arena)
    /\ result.op = "find_cycles" => (result.ret # <<>>) = HasDirectedCycle(arena)
    /\ result.op = "validate_graph"
       => result.ret = IF HasDirectedCycle(arena) THEN Err("CircularDependency")
                       ELSE Ok("unit")

\* has_cycle() is true on an arena that has a root (a node without parents)
\* from which no node of a cycle is reachable
C26_Witness ==
    /\ result.op = "has_cycle"
    /\ result.ret
    /\ \E r \in 1..Len(arena.nodes) :
           /\ arena.nodes[r].incoming = <<>>
           /\ \A n \in 1..Len(arena.nodes) :
                  n \in Descendants(arena, n) => ~PathExists(arena, r, n)

----------------------------------------------------------------------------
(* Properties of calculate_cost, checked under SpecCachedCost *)

\* the node of the component the last calculate_cost was asked for
CostedNode == arena.nodes[arena.component_index[result.component_id]]

\* calculate_cost was just called for a component of the graph
CostAsked ==
    /\ result.op = "calculate_cost"
    /\ result.component_id \in DOMAIN arena.component_index

\* the node cache of the costed component is populated and its flag is clear
CacheValid == ~CostedNode.dirty /\ CostedNode.cache.total_material_cost.some

\* the components of the sub-DAG rooted at the costed component
SubDagComponents ==
    {arena.nodes[n].component_id :
         n \in DownClosure(EdgePairs(arena), {arena.component_index[result.component_id]})}

\* C27: calculate_cost(cid) returns the node's cached total_material_cost, as
\* material_cost and as total_cost, when the node is not dirty and its cache
\* is populated; when the node is dirty or the cache is empty, a returned
\* cost is the one rolled up from the repository and the graph, so the cached
\* value of a dirty node is never returned.
C27_CachedCostOnlyWhenClean ==
    CostAsked =>
        /\ CacheValid =>
               /\ result.ret.ok
               /\ result.ret.value.material_cost = CostedNode.cache.total_material_cost.v
               /\ result.ret.value.total_cost = CostedNode.cache.total_material_cost.v
        /\ (~CacheValid /\ result.ret.ok) =>
               /\ DecEq(result.ret.value.material_cost,
                        Material(arena, arena.component_index[result.component_id]))
               /\ DecEq(result.ret.value.total_cost,
                        Material(arena, arena.component_index[result.component_id]))

\* calculate_cost recomputed the cost of a dirty node whose cache is populated
C27_Witness ==
    /\ CostAsked
    /\ CostedNode.dirty
    /\ CostedNode.cache.total_material_cost.some
    /\ CostedNode.version > 0
    /\ result.ret.ok
    /\ ~DecEq(result.ret.value.total_cost, CostedNode.cache.total_material_cost.v)

\* calculate_cost returned the cached total of a clean node
C27_CachedReturned ==
    /\ CostAsked
    /\ CacheValid
    /\ result.ret.ok
    /\ ~DecEq(result.ret.value.total_cost,
              Material(arena, arena.component_index[result.component_id]))

\* C28: calculate_cost(cid) loads Component records only for the nodes
\* reachable from cid: it succeeds whenever every component of the sub-DAG
\* rooted at cid is in the repository, whatever other components the graph
\* holds, and fails when a component of that sub-DAG is missing.
C28_AsStated ==
    CostAsked =>
        (result.ret.ok <=> SubDagComponents \subseteq result.present)

\* the sub-DAG of the costed component is in the repository, and a component
\* of the graph outside that sub-DAG is not
C28_OutsideMissing ==
    /\ CostAsked
    /\ CostedNode.dirty
    /\ SubDagComponents \subseteq result.present
    /\ \E c \in DOMAIN arena.component_index : c \notin result.present

\* C28, the part the code keeps: when a component of the sub-DAG is missing,
\* calculate_cost fails and no sum is returned
C28_FailsWhenSubDagMissing ==
    (CostAsked /\ ~CacheValid /\ ~(SubDagComponents \subseteq result.present))
        => ~result.ret.ok

----------------------------------------------------------------------------
(* Rejected insertions, checked under Spec *)

\* C29: a rejected insertion changes nothing: whenever add_bom_item returns
\* CircularDependency, the arena afterwards (nodes, component-id index, edges,
\* adjacency lists, dirty flags, versions, node and edge counts) is the arena
\* before the call.
C29_AsStated ==
    [][ (Constructed /\ result'.op = "add_bom_item" /\ ~result'.ret.ok)
            => arena' = arena ]_vars

\* what a rejected insertion does keep: the edges, and every node that was
\* there before, with its adjacency lists, dirty flag and version
C29_RejectedKeepsEdgesAndOldNodes ==
    [][ (Constructed /\ result'.op = "add_bom_item" /\ ~result'.ret.ok)
            => /\ arena'.edges = arena.edges
               /\ SubSeq(arena'.nodes, 1, Len(arena.nodes)) = arena.nodes
               /\ \A cid \in DOMAIN arena.component_index :
                      arena'.component_index[cid] = arena.component_index[cid] ]_vars

\* a rejected self-reference left a node for its component in the graph
C29_GhostNode ==
    /\ result.op = "add_bom_item"
    /\ ~result.ret.ok
    /\ result.item.parent_id = result.item.child_id
    /\ Len(arena.edges) = 0
    /\ Len(arena.nodes) = 1
    /\ result.item.parent_id \in DOMAIN arena.component_index

----------------------------------------------------------------------------
(* Level-parallel runs, checked under SpecParallel *)

\* a task of the current level ran in this step
TaskRan ==
    /\ Running
    /\ result'.op = result.op /\ result'.phase = "tasks"
    /\ result'.k = result.k
    /\ result'.level_results # result.level_results

\* C21: within one explode or calculate_all_costs run, whatever the order in
\* which the tasks of each level run, the final quantities, path sets and
\* costs are the same (those of the level-by-level computation): a task
\* leaves the shared maps as they were at the last level barrier, and the
\* maps are written only by the merge after all tasks of the level.
C21_InterleavingIndependent ==
    [][ /\ (TaskRan /\ result.op = "explode_run") =>
               /\ result'.quantities = result.quantities
               /\ result'.paths = result.paths
        /\ (TaskRan /\ result.op = "costs_run") => result'.cost_map = result.cost_map
        /\ (Running /\ result.op = "explode_run" /\ result'.phase = "tasks"
                /\ (result'.quantities # result.quantities \/ result'.paths # result.paths))
               => DOMAIN result.level_results = result.levels[result.k]
        /\ (Running /\ result.op = "costs_run" /\ result'.phase = "tasks"
                /\ result'.cost_map # result.cost_map)
               => DOMAIN result.level_results = result.levels[result.k]
        /\ (Running /\ result'.op = "explode_run" /\ result'.phase = "done") =>
               result'.ret = explode(arena, result.component_id, result.quantity)
        /\ (Running /\ result'.op = "costs_run" /\ result'.phase = "done") =>
               result'.ret = calculate_all_costs(arena, roots, CalcComponents) ]_vars

\* the explosion of A over the diamond finished, B and C being one level
C21_Witness ==
    /\ result.op = "explode_run" /\ result.phase = "done"
    /\ result.component_id = "A"
    /\ Len(arena.edges) = 4
    /\ \E it \in result.ret.value.items :
           it.component_id = "D" /\ BagCardinality(it.paths) = 2

\* a level of two tasks has the second task done and the first not yet
C21_SecondTaskFirst ==
    /\ Running
    /\ Cardinality(result.levels[result.k]) = 2
    /\ DOMAIN result.level_results = {MaxOf(result.levels[result.k])}

----------------------------------------------------------------------------
(* The cache shared by threads, checked under SpecSharedCache *)

\* a get_cost that started after invalidate_cost of its component had
\* returned has just returned
GetAfterInvalidate ==
    /\ result.op = "threads"
    /\ result.last.op = "get_cost"
    /\ result.last.after

\* C30: with several threads sharing one TieredCache that has an L2, once
\* invalidate_cost(c) has returned and no put_cost(c) is issued afterwards,
\* every get_cost(c) that starts later returns None, also when another
\* thread's get_cost(c) overlapped the invalidation.
C30_AsStated == GetAfterInvalidate => ~result.last.ret.some

\* a get_cost that started after the invalidation returned None
C30_NoneAfterInvalidate == GetAfterInvalidate /\ ~result.last.ret.some

\* no thread is inside a call, invalidate_cost(c) has returned, L2 has no
\* entry for c, and L1 holds one
C30_StaleInL1 ==
    /\ result.op = "threads"
    /\ \A t \in Threads : result.threads[t].pc = "idle"
    /\ \E c \in result.invalidated :
           /\ c \in DOMAIN cache.memory.cost_cache
           /\ c \notin DOMAIN cache.persistent.v.cost_table

====
